---------------------------- MODULE Spec2Model ----------------------------
(***************************************************************************)
(* Fractal-Vortex chain: the shared ledger (RPCStorage over LedgerDB), the *)
(* per-node ecosystem miner loops, the transfer handlers of the RPC server *)
(* and the mining auto-detection registry.                                 *)
(*                                                                         *)
(* Granularity: every RPC_DB.get / put / delete is one atomic step (the    *)
(* LedgerDB RwLock is held for exactly one such call); anything a task     *)
(* does between two ledger calls can be interleaved with other tasks,      *)
(* since tokio runs the miner loops and the HTTP handlers on a             *)
(* multi-threaded executor.                                                *)
(***************************************************************************)
EXTENDS Integers, Sequences, FiniteSets, TLC

\* ------------------------------------------------------------------ bounds
NumMiners == 2          \* miner loops sharing the ledger (the server starts 4)
MaxTicks == 2           \* ticks of a miner loop that runs alone
MineTicks == 1          \* ticks of each loop when every node mines
DetectTicks == 1        \* ticks of the loop that runs beside the monitor
NumReq == 2             \* transfer requests that may be in flight together
MaxTime == 2            \* the wall clock (seconds) stops advancing here
InitFunds == 3000       \* genesis allocation of address a1, micro-units
MaxDeviceOps == 2       \* device-endpoint requests arriving in one run
MineDeviceOps == 1      \* the same, in runs where every node mines
MaxClock == 70          \* the monitor stops ticking at this time, seconds

\* ------------------------------------------------------- program constants
BlockReward == 6250000  \* block_reward, micro-units
Fee == 1000             \* transfer fee, micro-units
HeartbeatTimeout == 30  \* AUTO_DETECTION heartbeat_timeout, seconds
CheckInterval == 10     \* AUTO_DETECTION check_interval, seconds
GracePeriod == 60       \* AUTO_DETECTION grace_period, seconds

Miners == 1..NumMiners
Requests == (NumMiners + 1)..(NumMiners + NumReq)
Procs == Miners \cup Requests

Devices == {"d1", "d2"}
Addresses == {"a1", "a2"}
\* EcosystemMiner::new : the hard-wired ecosystem wallet address
EcoAddress == "eco"

VARIABLES
    \* the ledger (one LevelDB instance behind RPC_DB)
    block_height,           \* key "block_height": {} when absent, else {n}
    blocks,                 \* key "block:{height}": height -> Block
    tx_store,               \* key "tx:{hash}": hash -> WalletTransaction
    tx_registry,            \* key "transaction_hashes_registry": Vec<String>
    transaction_count,      \* key "transaction_count": {} or {n}
    balance,                \* key "{address}": address -> u64, absent reads 0
    device_session,         \* key "device_session:{id}": {} or {[token, ts]}
    session_keys_registry,  \* key "session_keys_registry": Vec<String>
    device_addr,            \* key "device_addr:{id}": {} or {address}
    device_ids_registry,    \* key "device_ids_registry": Vec<String>
    \* wall clock, seconds
    now,
    \* tasks: the program counter and the locals of every task
    pc,
    loc,
    \* EcosystemMiner fields, per miner
    is_mining,              \* AtomicBool
    wallet_balance,         \* wallet.balance, in memory only
    total_transactions,     \* NodeState.total_transactions
    ticks,                  \* environment: ticks the loop may still begin
    \* history: every successful put of block:{h} by a tick, in order
    stored_log,
    \* AUTO_DETECTION.connections: device -> {} or {DeviceConnection}
    connections,
    \* GLOBAL_ECOSYSTEM_MINER holds a running miner
    global_miner,
    \* history: devices the monitor has stopped for a missing heartbeat and
    \* that have not contacted the server since
    evicted,
    \* environment: device-endpoint requests still to arrive
    device_ops,
    \* the build checks integer overflow (debug profile) or wraps (release)
    overflow_checks,
    \* the response of the last mining_heartbeat request
    heartbeat_response,
    \* MiningAutoDetection: the task that holds the connections mutex ("" when
    \* free), the devices whose stop callback is running, whether
    \* set_mining_callback has installed a callback, and the locals of the
    \* monitoring task inside one round of its loop
    mutex,
    callback_running,
    has_callback,
    monitor,
    \* FractalNode: the miner held in the ecosystem_miner field of node n ({}
    \* for None), and whether shutdown() has completed on node n
    node_miner,
    node_down,
    \* NodeManager: whether slot i of BLOCKCHAIN_NODES holds a node, the
    \* NODE_HEALTH flags, the round-robin counter, the result of the last
    \* get_healthy_node call ({} for None or no call yet), and the calls of
    \* get_healthy_node still to arrive
    node_present,
    node_health,
    counter,
    selected,
    lb_calls,
    \* VortexConsensus: ConsensusState.validators, energy_distribution (peer ->
    \* {} when absent, else {energy}), the BlockDAG (blocks: hash -> {} or
    \* {block}, edges: hash -> Vec of child hashes, tips) and finalized_blocks;
    \* the Vote messages handed to process_vote so far, as <<block hash, voter>>;
    \* and the NewBlock deliveries so far
    validators,
    energy_distribution,
    dag_blocks,
    dag_edges,
    dag_tips,
    finalized_blocks,
    votes_received,
    deliveries,
    \* MiningRewardSystem: the block height handed to calculate_reward and the
    \* RewardDistribution it returned ({} before the call)
    reward_height,
    reward_result,
    \* DifficultyAdjuster: the arguments of a calculate_new_difficulty call
    \* and the difficulty it returned ({} before the call)
    retarget_input,
    retarget_result,
    \* address validation: the string handed to the validators (a sequence
    \* of characters) and the verdict of each validator ({} before its call)
    address_input,
    address_result,
    \* one EcosystemMiner under start() and stop() calls: its is_mining flag,
    \* the loop task that holds the wallet mutex ({} when it is free), the
    \* state of every loop task it has spawned ("none" before the spawn), the
    \* position of every start() call, and the stop() calls still to come
    em_is_mining,
    em_wallet,
    em_loops,
    em_starts,
    em_stops,
    \* LedgerDB: the LevelDB database, value bytes ({} when absent) under
    \* every i32 key
    db

ledgerVars == <<block_height, blocks, tx_store, tx_registry, transaction_count,
                balance, device_session, session_keys_registry, device_addr,
                device_ids_registry>>
minerVars == <<is_mining, wallet_balance, total_transactions, ticks>>
lockVars == <<mutex, callback_running, has_callback, monitor>>
nodeVars == <<node_miner, node_down>>
balancerVars == <<node_present, node_health, counter, selected, lb_calls>>
consensusVars == <<validators, energy_distribution, dag_blocks, dag_edges, dag_tips,
                   finalized_blocks, votes_received, deliveries>>
rewardVars == <<reward_height, reward_result>>
retargetVars == <<retarget_input, retarget_result>>
addressVars == <<address_input, address_result>>
restartVars == <<em_is_mining, em_wallet, em_loops, em_starts, em_stops>>
storeVars == <<db>>
restVars == <<retargetVars, addressVars, restartVars, storeVars>>
extraVars == <<lockVars, nodeVars, balancerVars, consensusVars, rewardVars, restVars>>
detectVars == <<connections, global_miner, evicted, device_ops, overflow_checks,
                heartbeat_response, extraVars>>
vars == <<ledgerVars, now, pc, loc, minerVars, stored_log, detectVars>>

\* ----------------------------------------------------------------- values
\* A transaction hash string, kept as the fields it is formatted from.
\*   "0xmining_{height}_{ts}_{device[..8]}_{random:x}", "eco{random:x}",
\*   "tx_{ts}", "genesis"
\* A random draw is a value no other draw returns: rnd names the draw.
Hash(kind, h, ts, dev, rnd) ==
    [kind |-> kind, h |-> h, ts |-> ts, dev |-> dev, rnd |-> rnd]

NoRnd == <<0, 0, 0>>
GenesisHash == Hash("genesis", 0, 0, "", NoRnd)
NoHash == Hash("none", 0, 0, "", NoRnd)

WalletTransaction(hash, from, to, amount, ts, type, height) ==
    [hash |-> hash, from |-> from, to |-> to, amount |-> amount,
     timestamp |-> ts, transaction_type |-> type, block_height |-> height]

\* new_mining_reward whose own timestamp, the clock at the time of the call,
\* is kept instead of being overridden with the tick's block_timestamp
new_mining_reward_own_clock(address, amount, hash, height, ts) ==
    WalletTransaction(hash, "Mining-Reward", address, amount, now,
                      "mining_reward", height)

\* WalletTransaction::new_mining_reward, with the timestamp the miner then
\* overrides it with
new_mining_reward(address, amount, hash, height, ts) ==
    WalletTransaction(hash, "Mining-Reward", address, amount, ts,
                      "mining_reward", height)

NoTx == WalletTransaction(NoHash, "", "", 0, 0, "none", 0)

\* Block::new_with_real_hash_and_timestamp / Block::new_with_timestamp
NewBlock(height, miner, parent_hash, hash, ts) ==
    [hash |-> hash, height |-> height, timestamp |-> ts,
     transactions |-> <<>>, transaction_count |-> 0, miner |-> miner,
     parent_hash |-> parent_hash, size |-> 1000 + height * 100]

\* Block::add_transaction
BlockAddTransaction(b, tx) ==
    [b EXCEPT !.transactions = Append(b.transactions, tx),
              !.transaction_count = Len(b.transactions) + 1,
              !.size = 1000 + b.height * 100 + (Len(b.transactions) + 1) * 200]

RECURSIVE BlockAddAll(_, _)
BlockAddAll(b, txs) ==
    IF txs = <<>> THEN b
    ELSE BlockAddAll(BlockAddTransaction(b, Head(txs)), Tail(txs))

\* ------------------------------------------------------- ledger primitives
Opt(s) == CHOOSE x \in s : TRUE

\* RPCStorage::get_block_height
get_block_height == IF block_height = {} THEN 1 ELSE Opt(block_height)

\* RPCStorage::get_transaction_count : the length of the registry
get_transaction_count == Len(tx_registry)

\* RPCStorage::get_balance / LedgerDB::get_balance
get_balance(address) == balance[address]

SeqToSet(s) == {s[i] : i \in 1..Len(s)}

\* Vec::contains
Contains(s, x) == x \in SeqToSet(s)

\* Vec::retain(|id| id != x)
RECURSIVE Without(_, _)
Without(s, x) ==
    IF s = <<>> THEN <<>>
    ELSE IF Head(s) = x THEN Without(Tail(s), x)
    ELSE <<Head(s)>> \o Without(Tail(s), x)

\* RPCStorage::get_all_active_devices : the registered ids that still have
\* a device_session record, in registry order
RECURSIVE ActiveOf(_)
ActiveOf(s) ==
    IF s = <<>> THEN <<>>
    ELSE IF device_session[Head(s)] # {} THEN <<Head(s)>> \o ActiveOf(Tail(s))
    ELSE ActiveOf(Tail(s))

get_all_active_devices == ActiveOf(session_keys_registry)

\* put(key, value) on a function-valued key family
Put(f, k, v) == (k :> v) @@ f


\* u64 arithmetic.  TLC's integers are 32 bits wide, so the 64-bit word is
\* scaled down: U64Max stands for u64::MAX.
U64Max == 1073741823

\* u64::saturating_add
saturating_add(a, b) == IF a + b > U64Max THEN U64Max ELSE a + b

\* u64 subtraction that underflows: the wrapped value of a release build
wrapping_sub(a, b) == (a - b) % (U64Max + 1)

\* u64 addition of a build without overflow checks
wrapping_add(a, b) == (a + b) % (U64Max + 1)

\* ------------------------------------------------------------ initial state
\* RPCStorage::create_genesis_block
GenesisTx == WalletTransaction(GenesisHash, "Genesis", "Genesis", 0, 0, "genesis", 0)

BlockHash(kind, a, b) == [kind |-> kind, a |-> a, b |-> b]

GenesisBlock ==
    BlockAddTransaction(NewBlock(0, "Genesis", 0, BlockHash("fake", 12345, 0), 0),
                        GenesisTx)

\* locals of a miner task between ticks
MinerLoc0 ==
    [cur |-> 0, h |-> 0, ts |-> 0, active |-> <<>>, idx |-> 0, rpm |-> 0,
     addr |-> "", txs |-> <<>>, tx |-> NoTx, bal |-> 0, reg |-> <<>>,
     cnt |-> 0, ret |-> "", sidx |-> 0, block |-> {}, pow |-> <<0, 0>>,
     bal0 |-> [a \in Addresses \cup {EcoAddress} |-> 0], h0 |-> {},
     stored |-> FALSE, evicted0 |-> {}]

\* locals of a request handler before a request arrives; wrote is history:
\* a ledger call of the handler has changed the value under a key.  dev,
\* addr and ts are the device id, address and time of a start/stop request,
\* node the node id of a restart request
ReqLoc0 ==
    [kind |-> "", from |-> "", to |-> "", amount |-> 0, tx |-> NoTx,
     reg |-> <<>>, cnt |-> 0, ret |-> "", sbal |-> 0, rbal |-> 0,
     result |-> "", wrote |-> FALSE, dev |-> "", addr |-> "", ts |-> 0,
     node |-> 0]

\* create_genesis_block : the balances of the "alloc" section of
\* mainnet-genesis.json; here one funded address
GenesisAlloc == [a \in Addresses \cup {EcoAddress} |-> IF a = "a1" THEN InitFunds ELSE 0]

\* The ledger after main has run create_genesis_block on an empty store:
\* block:0 and tx:genesis exist, the registry lists the genesis hash, and
\* increment_transaction_count has written registry length + 1.
LedgerInit ==
    /\ block_height = {}
    /\ blocks = (0 :> GenesisBlock)
    /\ tx_store = (GenesisHash :> GenesisTx)
    /\ tx_registry = <<GenesisHash>>
    /\ transaction_count = {2}
    /\ balance = GenesisAlloc
    /\ device_session = [d \in Devices |-> {}]
    /\ session_keys_registry = <<>>
    /\ device_addr = [d \in Devices |-> {}]
    /\ device_ids_registry = <<>>

\* no mining_heartbeat request has been answered yet
NoResponse == [device |-> "", success |-> FALSE, mining_status |-> FALSE, message |-> ""]

\* the monitoring task asleep between two rounds
MonitorIdle == [pc |-> "sleep", to_stop |-> {}, to_remove |-> {}]

\* static AUTO_DETECTION: MiningAutoDetection::new leaves mining_callback at
\* None and the server never calls set_mining_callback; the mutex is free
LockInit ==
    /\ mutex = ""
    /\ callback_running = {}
    /\ has_callback = FALSE
    /\ monitor = MonitorIdle

\* initialize_blockchain_nodes : FractalNode::new leaves ecosystem_miner at
\* None; the miner the server starts for the node is a local value that is
\* dropped at the end of the block, its loop running on
NodeInit ==
    /\ node_miner = [n \in Miners |-> {}]
    /\ node_down = [n \in Miners |-> FALSE]

\* the slots of BLOCKCHAIN_NODES and NODE_HEALTH
NodeCount == 4

\* block hashes that occur in a run, and the peers of the network
MaxBlocks == 4
Hashes == 0..(MaxBlocks - 1)
Peers == {"self", "peer"}
Nodes == 0..(NodeCount - 1)

\* initialize_blockchain_nodes with every FractalNode::new succeeding: each
\* slot holds a node and is healthy; NodeManager::new sets the counter to 0.
\* No get_healthy_node call is expected.
BalancerInit ==
    /\ node_present = [i \in Nodes |-> TRUE]
    /\ node_health = [i \in Nodes |-> TRUE]
    /\ counter = 0
    /\ selected = {}
    /\ lb_calls = 0

\* a u64 block height h, written h = wraps * (2^32 * halving_interval) + low
BlockHeight(wraps, low) == [wraps |-> wraps, low |-> low]

\* No calculate_reward call is expected.
RewardInit ==
    /\ reward_height = BlockHeight(0, 0)
    /\ reward_result = {}

\* the arguments of calculate_new_difficulty: the current difficulty and the
\* slice of block times, given by its length and the sum of its elements
RetargetInput(difficulty, len, sum) ==
    [current_difficulty |-> difficulty, times_len |-> len, actual_time |-> sum]

\* No calculate_new_difficulty call is expected.
RetargetInit ==
    /\ retarget_input = RetargetInput(1, 0, 0)
    /\ retarget_result = {}

\* the address validators of the program
Validators == {"key_manager", "input_validation", "rpc_server"}

\* No address is validated.
AddressInit ==
    /\ address_input = <<>>
    /\ address_result = [v \in Validators |-> {}]

\* start() calls made on one EcosystemMiner; each can spawn one loop task
MaxStarts == 2
StartCalls == 1..MaxStarts

\* EcosystemMiner::new : is_mining false, no loop task. No start() or stop()
\* call is expected.
RestartInit ==
    /\ em_is_mining = FALSE
    /\ em_wallet = {}
    /\ em_loops = [c \in StartCalls |-> "none"]
    /\ em_starts = [c \in StartCalls |-> "done"]
    /\ em_stops = 0

\* LedgerDB::open on an empty directory: no key has a value
StoreInit == db = [k \in {} |-> {}]

\* the state of the remaining components when none of them is used
RestInit ==
    /\ RetargetInit
    /\ AddressInit
    /\ RestartInit
    /\ StoreInit

\* VortexConsensus::new : an empty validator set, an empty block DAG and
\* nothing finalized. No consensus call is expected.
ConsensusInit ==
    /\ validators = {}
    /\ energy_distribution = [p \in Peers |-> {}]
    /\ dag_blocks = [h \in Hashes |-> {}]
    /\ dag_edges = [h \in Hashes |-> <<>>]
    /\ dag_tips = {}
    /\ finalized_blocks = {}
    /\ votes_received = {}
    /\ deliveries = 0

\* the state outside the ledger, the miner loops and the request handlers
ExtraInit ==
    /\ LockInit
    /\ NodeInit
    /\ BalancerInit
    /\ ConsensusInit
    /\ RewardInit
    /\ RestInit

\* the tasks before anything has run; no device has contacted the server
HandlersInit ==
    /\ pc = [p \in Procs |-> IF p \in Miners THEN "loop" ELSE "idle"]
    /\ loc = [p \in Procs |-> IF p \in Miners THEN MinerLoc0 ELSE ReqLoc0]
    /\ wallet_balance = [m \in Miners |-> 0]
    /\ total_transactions = [m \in Miners |-> 0]
    /\ stored_log = <<>>
    /\ now = 0
    /\ global_miner = FALSE
    /\ evicted = {}
    /\ connections = [d \in Devices |-> {}]
    /\ heartbeat_response = NoResponse

\* the server after main has set everything up
TasksInit ==
    /\ HandlersInit
    /\ ExtraInit

\* ------------------------------------------------- RPCStorage::add_transaction
\* The caller has put the transaction in loc[p].tx and the label to return
\* to in loc[p].ret.  Five ledger calls, each its own step:
\*   put tx:{hash}; get registry; put registry; get registry (count); put count

\* RPC_DB.put("tx:{hash}", tx); the get before it only sets the unused
\* _tx_exists
AddTxPut(p) ==
    /\ pc[p] = "atx_put"
    /\ tx_store' = Put(tx_store, loc[p].tx.hash, loc[p].tx)
    /\ pc' = [pc EXCEPT ![p] = "atx_reg_get"]
    /\ loc' = IF p \in Requests /\ tx_store' # tx_store
              THEN [loc EXCEPT ![p].wrote = TRUE] ELSE loc
    /\ UNCHANGED <<block_height, blocks, tx_registry, transaction_count, balance,
                   device_session, session_keys_registry, device_addr,
                   device_ids_registry, now, minerVars, stored_log, detectVars>>

\* add_transaction without the is_new_tx test: the hash is pushed and the
\* counter incremented on every call
AddTxRegGetNoContains(p) ==
    /\ pc[p] = "atx_reg_get"
    /\ loc' = [loc EXCEPT ![p].reg = tx_registry]
    /\ pc' = [pc EXCEPT ![p] = "atx_reg_put"]
    /\ UNCHANGED <<ledgerVars, now, minerVars, stored_log, detectVars>>

\* RPC_DB.get("transaction_hashes_registry"); is_new_tx
AddTxRegGet(p) ==
    /\ pc[p] = "atx_reg_get"
    /\ loc' = [loc EXCEPT ![p].reg = tx_registry]
    /\ pc' = [pc EXCEPT ![p] = IF Contains(tx_registry, loc[p].tx.hash)
                                 THEN loc[p].ret ELSE "atx_reg_put"]
    /\ UNCHANGED <<ledgerVars, now, minerVars, stored_log, detectVars>>

\* tx_hashes.push(hash); RPC_DB.put("transaction_hashes_registry", ..)
AddTxRegPut(p) ==
    /\ pc[p] = "atx_reg_put"
    /\ tx_registry' = Append(loc[p].reg, loc[p].tx.hash)
    /\ pc' = [pc EXCEPT ![p] = "atx_cnt_get"]
    /\ loc' = IF p \in Requests /\ tx_registry' # tx_registry
              THEN [loc EXCEPT ![p].wrote = TRUE] ELSE loc
    /\ UNCHANGED <<block_height, blocks, tx_store, transaction_count, balance,
                   device_session, session_keys_registry, device_addr,
                   device_ids_registry, now, minerVars, stored_log, detectVars>>

\* increment_transaction_count : current = get_transaction_count()
AddTxCntGet(p) ==
    /\ pc[p] = "atx_cnt_get"
    /\ loc' = [loc EXCEPT ![p].cnt = get_transaction_count]
    /\ pc' = [pc EXCEPT ![p] = "atx_cnt_put"]
    /\ UNCHANGED <<ledgerVars, now, minerVars, stored_log, detectVars>>

\* increment_transaction_count : set_transaction_count(current + 1)
AddTxCntPut(p) ==
    /\ pc[p] = "atx_cnt_put"
    /\ transaction_count' = {loc[p].cnt + 1}
    /\ pc' = [pc EXCEPT ![p] = loc[p].ret]
    /\ loc' = IF p \in Requests /\ transaction_count' # transaction_count
              THEN [loc EXCEPT ![p].wrote = TRUE] ELSE loc
    /\ UNCHANGED <<block_height, blocks, tx_store, tx_registry, balance,
                   device_session, session_keys_registry, device_addr,
                   device_ids_registry, now, minerVars, stored_log, detectVars>>

\* ------------------------------------------ RPCStorage::increment_block_height
\* current = get_block_height()
IncrementBlockHeightGet(m) ==
    /\ pc[m] = "ibh_get"
    /\ loc' = [loc EXCEPT ![m].cur = get_block_height]
    /\ pc' = [pc EXCEPT ![m] = "ibh_put"]
    /\ UNCHANGED <<ledgerVars, now, minerVars, stored_log, detectVars>>

\* set_block_height(current + 1); Ok(new_height)
IncrementBlockHeightPut(m) ==
    /\ pc[m] = "ibh_put"
    /\ block_height' = {loc[m].cur + 1}
    /\ loc' = [loc EXCEPT ![m].cur = loc[m].cur + 1]
    /\ pc' = [pc EXCEPT ![m] = loc[m].ret]
    /\ UNCHANGED <<blocks, tx_store, tx_registry, transaction_count, balance,
                   device_session, session_keys_registry, device_addr,
                   device_ids_registry, now, minerVars, stored_log, detectVars>>

\* the loop with the test of is_mining at the head of the while left out
MinerLoopUnconditional(m) ==
    /\ pc[m] = "loop"
    /\ ticks[m] > 0
    /\ ticks' = [ticks EXCEPT ![m] = ticks[m] - 1]
    /\ wallet_balance' =
          [wallet_balance EXCEPT ![m] = saturating_add(wallet_balance[m], BlockReward)]
    /\ loc' = [loc EXCEPT ![m] = [MinerLoc0 EXCEPT !.pow = <<m, ticks[m]>>,
                                                   !.bal0 = balance,
                                                   !.h0 = block_height,
                                                   !.ret = "devices"]]
    /\ pc' = [pc EXCEPT ![m] = "ibh_get"]
    /\ UNCHANGED <<ledgerVars, now, is_mining, total_transactions, stored_log, detectVars>>

\* ------------------------------------------------ EcosystemMiner::start, loop
\* while is_mining: mine the PoW, add the reward to the in-memory wallet and
\* call increment_block_height for new_block_height
MinerLoop(m) ==
    /\ pc[m] = "loop"
    /\ is_mining[m]
    /\ ticks[m] > 0
    /\ ticks' = [ticks EXCEPT ![m] = ticks[m] - 1]
    /\ wallet_balance' =
          [wallet_balance EXCEPT ![m] = saturating_add(wallet_balance[m], BlockReward)]
    /\ loc' = [loc EXCEPT ![m] = [MinerLoc0 EXCEPT !.pow = <<m, ticks[m]>>,
                                                   !.bal0 = balance,
                                                   !.h0 = block_height,
                                                   !.ret = "devices"]]
    /\ pc' = [pc EXCEPT ![m] = "ibh_get"]
    /\ UNCHANGED <<ledgerVars, now, is_mining, total_transactions, stored_log, detectVars>>

\* block_timestamp = now; active_devices = get_all_active_devices();
\* with no active device the whole reward goes to the ecosystem address in one
\* transaction "eco{random}", handed to add_transaction
MinerActiveDevices(m) ==
    /\ pc[m] = "devices"
    /\ LET active == get_all_active_devices
           h == loc[m].cur
           ecoTx == new_mining_reward(EcoAddress, BlockReward,
                        Hash("eco", 0, 0, "", <<m, ticks[m], 0>>), h, now)
       IN  IF active = <<>>
           THEN /\ loc' = [loc EXCEPT ![m].h = h, ![m].ts = now,
                                      ![m].tx = ecoTx, ![m].txs = <<ecoTx>>,
                                      ![m].ret = "store_put"]
                /\ pc' = [pc EXCEPT ![m] = "atx_put"]
           ELSE /\ loc' = [loc EXCEPT ![m].h = h, ![m].ts = now,
                                      ![m].active = active, ![m].idx = 1,
                                      ![m].evicted0 = evicted,
                                      ![m].rpm = BlockReward \div Len(active)]
                /\ pc' = [pc EXCEPT ![m] = "dev_addr"]
    /\ UNCHANGED <<ledgerVars, now, minerVars, stored_log, detectVars>>

\* where the device loop goes after device number idx
AfterDevice(m) == IF loc[m].idx >= Len(loc[m].active) THEN "store_put" ELSE "dev_addr"

\* for device_id in active_devices: get_device_address(device_id); a device
\* with an address gets a reward transaction, handed to add_transaction
MinerDeviceAddress(m) ==
    /\ pc[m] = "dev_addr"
    /\ LET d == loc[m].active[loc[m].idx]
           a == Opt(device_addr[d])
           tx == new_mining_reward(a, loc[m].rpm,
                     Hash("mining", loc[m].h, loc[m].ts, d, <<m, ticks[m], loc[m].idx>>),
                     loc[m].h, loc[m].ts)
       IN  IF device_addr[d] = {}
           THEN /\ loc' = [loc EXCEPT ![m].idx = loc[m].idx + 1]
                /\ pc' = [pc EXCEPT ![m] = AfterDevice(m)]
           ELSE /\ loc' = [loc EXCEPT ![m].addr = a, ![m].tx = tx,
                                      ![m].txs = Append(loc[m].txs, tx),
                                      ![m].ret = "bal_get"]
                /\ pc' = [pc EXCEPT ![m] = "atx_put"]
    /\ UNCHANGED <<ledgerVars, now, minerVars, stored_log, detectVars>>

\* current_balance = get_balance(miner_address)
MinerBalanceGet(m) ==
    /\ pc[m] = "bal_get"
    /\ loc' = [loc EXCEPT ![m].bal = get_balance(loc[m].addr)]
    /\ pc' = [pc EXCEPT ![m] = "bal_set"]
    /\ UNCHANGED <<ledgerVars, now, minerVars, stored_log, detectVars>>

\* set_balance(miner_address, current_balance.saturating_add(reward_per_miner))
MinerBalanceSet(m) ==
    /\ pc[m] = "bal_set"
    /\ balance' = [balance EXCEPT ![loc[m].addr] = saturating_add(loc[m].bal, loc[m].rpm)]
    /\ loc' = [loc EXCEPT ![m].idx = loc[m].idx + 1]
    /\ pc' = [pc EXCEPT ![m] = AfterDevice(m)]
    /\ UNCHANGED <<block_height, blocks, tx_store, tx_registry, transaction_count,
                   device_session, session_keys_registry, device_addr,
                   device_ids_registry, now, minerVars, stored_log, detectVars>>

\* the block of the tick: parent_hash is formatted from height - 1 + 12345,
\* every reward transaction of the tick is added
real_block(m) ==
    BlockAddAll(NewBlock(loc[m].h, EcoAddress, loc[m].h - 1 + 12345,
                         BlockHash("pow", loc[m].pow[1], loc[m].pow[2]), loc[m].ts),
                loc[m].txs)

\* store_block : RPC_DB.put("block:{height}", block) succeeds
StoreBlockPut(m) ==
    /\ pc[m] = "store_put"
    /\ blocks' = Put(blocks, loc[m].h, real_block(m))
    /\ stored_log' = Append(stored_log, [miner |-> m, tick |-> ticks[m], height |-> loc[m].h])
    /\ loc' = [loc EXCEPT ![m].sidx = 1, ![m].stored = TRUE]
    /\ pc' = [pc EXCEPT ![m] = "store_txs"]
    /\ UNCHANGED <<block_height, tx_store, tx_registry, transaction_count, balance,
                   device_session, session_keys_registry, device_addr,
                   device_ids_registry, now, minerVars, detectVars>>

\* store_block : the put returns a LevelDB error; the tick logs it and goes on
\* to the consensus block without the second increment_block_height
StoreBlockFails(m) ==
    /\ pc[m] = "store_put"
    /\ pc' = [pc EXCEPT ![m] = "finish"]
    /\ UNCHANGED <<ledgerVars, now, loc, minerVars, stored_log, detectVars>>

\* store_block : for tx in &block.transactions { add_transaction(tx) }, then
\* back in the tick the second increment_block_height
StoreBlockTransactions(m) ==
    /\ pc[m] = "store_txs"
    /\ IF loc[m].sidx > Len(loc[m].txs)
       THEN /\ loc' = [loc EXCEPT ![m].ret = "finish"]
            /\ pc' = [pc EXCEPT ![m] = "ibh_get"]
       ELSE /\ loc' = [loc EXCEPT ![m].tx = loc[m].txs[loc[m].sidx],
                                  ![m].sidx = loc[m].sidx + 1,
                                  ![m].ret = "store_txs"]
            /\ pc' = [pc EXCEPT ![m] = "atx_put"]
    /\ UNCHANGED <<ledgerVars, now, minerVars, stored_log, detectVars>>

\* state.total_transactions = get_transaction_count(); sleep(5 s)
MinerFinish(m) ==
    /\ pc[m] = "finish"
    /\ total_transactions' = [total_transactions EXCEPT ![m] = get_transaction_count]
    /\ pc' = [pc EXCEPT ![m] = "loop"]
    /\ UNCHANGED <<ledgerVars, now, loc, is_mining, wallet_balance, ticks, stored_log, detectVars>>

\* one step of add_transaction by task p
AddTransaction(p) ==
    \/ AddTxPut(p)
    \/ AddTxRegGet(p)
    \/ AddTxRegPut(p)
    \/ AddTxCntGet(p)
    \/ AddTxCntPut(p)

\* one step of miner m
MinerStep(m) ==
    \/ MinerLoop(m)
    \/ IncrementBlockHeightGet(m)
    \/ IncrementBlockHeightPut(m)
    \/ MinerActiveDevices(m)
    \/ MinerDeviceAddress(m)
    \/ MinerBalanceGet(m)
    \/ MinerBalanceSet(m)
    \/ StoreBlockPut(m)
    \/ StoreBlockFails(m)
    \/ StoreBlockTransactions(m)
    \/ MinerFinish(m)
    \/ AddTransaction(m)

\* ------------------------------------------- device_send_impl, wallet_send_impl
\* addresses a request may carry; "x" is shorter than 20 characters
AddrInputs == Addresses \cup {"x"}
Amounts == {1000, 2500}
TooShort(a) == a = "x"

\* the transaction both handlers build: hash "tx_{timestamp}", block_height 1
TransferTx(kind, from, to, amount) ==
    WalletTransaction(Hash("tx", 0, now, "", NoRnd), from, to, amount, now,
                      IF kind = "device" THEN "device_transfer" ELSE "transfer", 1)

Done(r, result) ==
    /\ pc' = [pc EXCEPT ![r] = "done"]
    /\ loc' = [loc EXCEPT ![r].result = result]

\* A request arrives.  Address validation, then the first balance check:
\* device_send_impl compares with amount + fee, wallet_send_impl with amount.
TransferStart(r) ==
    /\ pc[r] = "idle"
    /\ \E kind \in {"device", "wallet"}, from \in AddrInputs, to \in AddrInputs,
          amount \in Amounts :
          LET l == [ReqLoc0 EXCEPT !.kind = kind, !.from = from, !.to = to,
                                   !.amount = amount]
              required == IF kind = "device" THEN amount + Fee ELSE amount
          IN  IF TooShort(from) \/ TooShort(to)
              THEN /\ pc' = [pc EXCEPT ![r] = "done"]
                   /\ loc' = [loc EXCEPT ![r] = [l EXCEPT !.result = "invalid_address"]]
              ELSE IF get_balance(from) < required
              THEN /\ pc' = [pc EXCEPT ![r] = "done"]
                   /\ loc' = [loc EXCEPT ![r] = [l EXCEPT !.result = "insufficient"]]
              ELSE /\ pc' = [pc EXCEPT ![r] = "atx_put"]
                   /\ loc' = [loc EXCEPT ![r] =
                                [l EXCEPT !.tx = TransferTx(kind, from, to, amount),
                                          !.ret = "xfer_sget"]]
    /\ UNCHANGED <<ledgerVars, now, minerVars, stored_log, detectVars>>

\* get_balance(from) after add_transaction returned Ok
TransferSenderGet(r) ==
    /\ pc[r] = "xfer_sget"
    /\ loc' = [loc EXCEPT ![r].sbal = get_balance(loc[r].from)]
    /\ pc' = [pc EXCEPT ![r] = "xfer_rget"]
    /\ UNCHANGED <<ledgerVars, now, minerVars, stored_log, detectVars>>

\* get_balance(to); then the new balances are computed.
\*   device_send_impl: "double-check": sender_current_balance < total_required
\*     returns the error; otherwise sender - total_required.
\*   wallet_send_impl: sender - amount - 1000 with no check: when the u64
\*     subtraction underflows, a build with overflow checks panics (the
\*     handler task ends), another build wraps.
TransferReceiverGet(r) ==
    /\ pc[r] = "xfer_rget"
    /\ LET l == [loc[r] EXCEPT !.rbal = get_balance(loc[r].to)]
           total == l.amount + Fee
       IN  IF l.sbal < total /\ l.kind = "device"
           THEN /\ pc' = [pc EXCEPT ![r] = "done"]
                /\ loc' = [loc EXCEPT ![r] = [l EXCEPT !.result = "insufficient"]]
           ELSE IF l.sbal < total /\ overflow_checks
           THEN /\ pc' = [pc EXCEPT ![r] = "done"]
                /\ loc' = [loc EXCEPT ![r] = [l EXCEPT !.result = "panic"]]
           ELSE /\ pc' = [pc EXCEPT ![r] = "xfer_sset"]
                /\ loc' = [loc EXCEPT ![r] = l]
    /\ UNCHANGED <<ledgerVars, now, minerVars, stored_log, detectVars>>

\* set_balance(from, sender_new_balance)
TransferSenderSet(r) ==
    /\ pc[r] = "xfer_sset"
    /\ balance' = [balance EXCEPT ![loc[r].from] = wrapping_sub(loc[r].sbal, loc[r].amount + Fee)]
    /\ pc' = [pc EXCEPT ![r] = "xfer_rset"]
    /\ UNCHANGED <<block_height, blocks, tx_store, tx_registry, transaction_count,
                   device_session, session_keys_registry, device_addr,
                   device_ids_registry, now, loc, minerVars, stored_log, detectVars>>

\* set_balance(to, receiver_current_balance + amount); success is returned
TransferReceiverSet(r) ==
    /\ pc[r] = "xfer_rset"
    /\ balance' = [balance EXCEPT ![loc[r].to] = wrapping_add(loc[r].rbal, loc[r].amount)]
    /\ Done(r, "success")
    /\ UNCHANGED <<block_height, blocks, tx_store, tx_registry, transaction_count,
                   device_session, session_keys_registry, device_addr,
                   device_ids_registry, now, minerVars, stored_log, detectVars>>

\* one step of the handler of request r
TransferStep(r) ==
    \/ TransferStart(r)
    \/ AddTransaction(r)
    \/ TransferSenderGet(r)
    \/ TransferReceiverGet(r)
    \/ TransferSenderSet(r)
    \/ TransferReceiverSet(r)

\* the wall clock, in seconds
AdvanceClock ==
    /\ now < MaxTime
    /\ now' = now + 1
    /\ UNCHANGED <<ledgerVars, pc, loc, minerVars, stored_log, detectVars>>

\* ------------------------------------------------------- device endpoints
\* Each device endpoint is taken as one step: all the ledger and
\* auto-detection calls of the handler, in the handler's order.
\* Session tokens.  A client sends its own token with miner_register and
\* the heartbeats; start_miner_impl formats "session_{device}_{timestamp}".
ClientToken(t) == <<"client", t, 0>>
SessionId(d, ts) == <<"session", d, ts>>
Tokens == {ClientToken("t1")}

\* wallet_address of a registration: a well-formed address or the empty string
WalletInputs == Addresses \cup {""}

\* RPCStorage::set_device_session
SetDeviceSession(d, token, ts) ==
    /\ device_session' = [device_session EXCEPT ![d] = {<<token, ts>>}]
    /\ session_keys_registry' =
          IF Contains(session_keys_registry, d) THEN session_keys_registry
          ELSE Append(session_keys_registry, d)

\* RPCStorage::remove_device_session
RemoveDeviceSession(d) ==
    /\ device_session' = [device_session EXCEPT ![d] = {}]
    /\ session_keys_registry' = Without(session_keys_registry, d)

\* RPCStorage::set_device_address
SetDeviceAddress(d, a) ==
    /\ device_addr' = [device_addr EXCEPT ![d] = {a}]
    /\ device_ids_registry' =
          IF Contains(device_ids_registry, d) THEN device_ids_registry
          ELSE Append(device_ids_registry, d)

\* RPCStorage::remove_device_address
RemoveDeviceAddress(d) ==
    /\ device_addr' = [device_addr EXCEPT ![d] = {}]
    /\ device_ids_registry' = Without(device_ids_registry, d)

\* MiningAutoDetection::register_device : the entry replaces any earlier one
DeviceConnection(d, token, a) ==
    [device_id |-> d, last_heartbeat |-> now, session_token |-> token,
     wallet_address |-> a, is_mining |-> FALSE, connection_count |-> 1,
     last_activity |-> now]

\* MiningAutoDetection::start_mining / stop_mining on a connection table
SetMining(conns, d, flag) ==
    IF conns[d] = {} THEN conns
    ELSE [conns EXCEPT ![d] = {[Opt(conns[d]) EXCEPT !.is_mining = flag,
                                                      !.last_activity = now]}]

\* the part of the state no device endpoint touches
DeviceFrame ==
    UNCHANGED <<block_height, blocks, tx_store, tx_registry, transaction_count,
                balance, now, pc, loc, minerVars, stored_log, overflow_checks,
                heartbeat_response, extraVars>>

\* a request for device d arrives at one of the device endpoints
ServeDevice(d) ==
    /\ device_ops > 0
    /\ device_ops' = device_ops - 1
    /\ evicted' = evicted \ {d}

\* miner_register : session, address when one is given, auto-detection entry
MinerRegister(d, token, a) ==
    /\ ServeDevice(d)
    /\ SetDeviceSession(d, token, now)
    /\ IF a # "" THEN SetDeviceAddress(d, a)
       ELSE UNCHANGED <<device_addr, device_ids_registry>>
    /\ connections' = [connections EXCEPT ![d] = {DeviceConnection(d, token, a)}]
    /\ UNCHANGED global_miner
    /\ DeviceFrame

\* start_miner_impl : start_production_mining, session "session_{d}_{now}",
\* address, register_device, start_mining
StartMiner(d, a) ==
    /\ ServeDevice(d)
    /\ global_miner' = TRUE
    /\ SetDeviceSession(d, SessionId(d, now), now)
    /\ SetDeviceAddress(d, a)
    /\ connections' =
          SetMining([connections EXCEPT ![d] = {DeviceConnection(d, SessionId(d, now), a)}],
                    d, TRUE)
    /\ DeviceFrame

\* stop_miner_impl : stop_production_mining, remove_device_session, stop_mining
StopMiner(d) ==
    /\ ServeDevice(d)
    /\ global_miner' = FALSE
    /\ RemoveDeviceSession(d)
    /\ connections' = SetMining(connections, d, FALSE)
    /\ UNCHANGED <<device_addr, device_ids_registry>>
    /\ DeviceFrame

\* miner_unregister : stop_production_mining, unregister_device,
\* remove_device_session, remove_device_address
MinerUnregister(d) ==
    /\ ServeDevice(d)
    /\ global_miner' = FALSE
    /\ connections' = [connections EXCEPT ![d] = {}]
    /\ RemoveDeviceSession(d)
    /\ RemoveDeviceAddress(d)
    /\ DeviceFrame

\* HeartbeatResponse, without server_time
Response(d, success, mining_status, message) ==
    [device |-> d, success |-> success, mining_status |-> mining_status,
     message |-> message]

\* MiningAutoDetection::update_heartbeat : the response
update_heartbeat_response(d, token) ==
    IF connections[d] # {}
    THEN IF Opt(connections[d]).session_token # token
         THEN Response(d, FALSE, FALSE, "Invalid session token")
         ELSE Response(d, TRUE, Opt(connections[d]).is_mining, "Heartbeat received")
    ELSE Response(d, FALSE, FALSE, "Device not registered")

\* update_heartbeat that refreshes the entry of a registered device before
\* it compares the session tokens
MiningHeartbeatBeforeTokenCheck(d, token) ==
    /\ ServeDevice(d)
    /\ heartbeat_response' = update_heartbeat_response(d, token)
    /\ connections' =
          IF connections[d] # {}
          THEN [connections EXCEPT ![d] =
                  {[Opt(connections[d]) EXCEPT
                       !.last_heartbeat = now, !.last_activity = now,
                       !.connection_count = Opt(connections[d]).connection_count + 1]}]
          ELSE connections
    /\ UNCHANGED <<ledgerVars, now, pc, loc, minerVars, stored_log, global_miner,
                   overflow_checks, extraVars>>

\* mining_heartbeat_impl -> MiningAutoDetection::update_heartbeat
MiningHeartbeat(d, token) ==
    /\ ServeDevice(d)
    /\ heartbeat_response' = update_heartbeat_response(d, token)
    /\ connections' =
          IF connections[d] # {} /\ Opt(connections[d]).session_token = token
          THEN [connections EXCEPT ![d] =
                  {[Opt(connections[d]) EXCEPT
                       !.last_heartbeat = now, !.last_activity = now,
                       !.connection_count = Opt(connections[d]).connection_count + 1]}]
          ELSE connections
    /\ UNCHANGED <<ledgerVars, now, pc, loc, minerVars, stored_log, global_miner,
                   overflow_checks, extraVars>>

\* device_heartbeat : a matching token refreshes the session timestamp
DeviceHeartbeat(d, token) ==
    /\ ServeDevice(d)
    /\ IF device_session[d] # {} /\ Opt(device_session[d])[1] = token
       THEN SetDeviceSession(d, token, now)
       ELSE UNCHANGED <<device_session, session_keys_registry>>
    /\ UNCHANGED <<device_addr, device_ids_registry, connections, global_miner>>
    /\ DeviceFrame

\* one request to a device endpoint
DeviceStep ==
    \/ \E d \in Devices, t \in Tokens, a \in WalletInputs : MinerRegister(d, t, a)
    \/ \E d \in Devices, a \in Addresses : StartMiner(d, a)
    \/ \E d \in Devices : StopMiner(d)
    \/ \E d \in Devices : MinerUnregister(d)
    \/ \E d \in Devices : \E t \in Tokens \cup {SessionId(d, 0)} : MiningHeartbeat(d, t)
    \/ \E d \in Devices : \E t \in Tokens \cup {SessionId(d, 0)} : DeviceHeartbeat(d, t)

\* --------------------------------------- MiningAutoDetection::start_monitoring
\* time_since_heartbeat of device d at time t
SinceHeartbeat(c, t) == IF t >= c.last_heartbeat THEN t - c.last_heartbeat ELSE 0

\* devices_to_stop without the grace period: a mining device is stopped as
\* soon as its heartbeat has timed out
devices_to_stop_at_timeout(t) ==
    {d \in Devices : /\ connections[d] # {}
                     /\ Opt(connections[d]).is_mining
                     /\ SinceHeartbeat(Opt(connections[d]), t) > HeartbeatTimeout}

\* devices_to_stop : mining, silent for more than grace_period
devices_to_stop(t) ==
    {d \in Devices : /\ connections[d] # {}
                     /\ Opt(connections[d]).is_mining
                     /\ SinceHeartbeat(Opt(connections[d]), t) > HeartbeatTimeout
                     /\ SinceHeartbeat(Opt(connections[d]), t) > GracePeriod}

\* devices_to_remove : not mining, silent for more than twice grace_period
devices_to_remove(t) ==
    {d \in Devices : /\ connections[d] # {}
                     /\ ~Opt(connections[d]).is_mining
                     /\ SinceHeartbeat(Opt(connections[d]), t) > HeartbeatTimeout
                     /\ SinceHeartbeat(Opt(connections[d]), t) > GracePeriod * 2}

\* One round of the monitoring loop: check_interval has passed; stopped
\* devices get is_mining = false (AUTO_DETECTION has no mining callback set,
\* so nothing else is called), removed devices leave the table.
MonitorTick ==
    /\ now + CheckInterval <= MaxClock
    /\ now' = now + CheckInterval
    /\ connections' =
          [d \in Devices |->
              IF d \in devices_to_stop(now') THEN {[Opt(connections[d]) EXCEPT !.is_mining = FALSE]}
              ELSE IF d \in devices_to_remove(now') THEN {}
              ELSE connections[d]]
    /\ evicted' = evicted \cup devices_to_stop(now')
    /\ UNCHANGED <<ledgerVars, pc, loc, minerVars, stored_log, global_miner,
                   device_ops, overflow_checks, heartbeat_response, extraVars>>

\* ---------------------------------------------------------- specifications
\* Every node's miner loop runs (initialize_blockchain_nodes starts them all)
\* while device-endpoint requests arrive.
InitMine ==
    /\ LedgerInit
    /\ TasksInit
    /\ is_mining = [m \in Miners |-> TRUE]
    /\ ticks = [m \in Miners |-> MineTicks]
    /\ device_ops = MineDeviceOps
    /\ overflow_checks = TRUE

NextMine ==
    \/ \E m \in Miners : MinerStep(m)
    \/ DeviceStep

SpecMine == InitMine /\ [][NextMine]_vars

\* One node's miner loop runs alone (the others have been stopped with
\* EcosystemMiner::stop) for several ticks while device requests arrive.
InitSolo ==
    /\ LedgerInit
    /\ TasksInit
    /\ is_mining = [m \in Miners |-> m = 1]
    /\ ticks = [m \in Miners |-> MaxTicks]
    /\ device_ops = MaxDeviceOps
    /\ overflow_checks = TRUE

NextSolo ==
    \/ \E m \in Miners : MinerStep(m)
    \/ DeviceStep

SpecSolo == InitSolo /\ [][NextSolo]_vars

\* One node's miner loop runs beside the device endpoints and the monitor.
InitDetect ==
    /\ LedgerInit
    /\ TasksInit
    /\ is_mining = [m \in Miners |-> m = 1]
    /\ ticks = [m \in Miners |-> DetectTicks]
    /\ device_ops = MaxDeviceOps
    /\ overflow_checks = TRUE

NextDetect ==
    \/ \E m \in Miners : MinerStep(m)
    \/ DeviceStep
    \/ MonitorTick

SpecDetect == InitDetect /\ [][NextDetect]_vars

\* The device endpoints and the monitor; no miner loop runs.
InitWatch ==
    /\ LedgerInit
    /\ TasksInit
    /\ is_mining = [m \in Miners |-> FALSE]
    /\ ticks = [m \in Miners |-> 0]
    /\ device_ops = MaxDeviceOps
    /\ overflow_checks = TRUE

NextWatch ==
    \/ DeviceStep
    \/ MonitorTick

SpecWatch == InitWatch /\ [][NextWatch]_vars

\* One node's miner loop and the device endpoints while the clock advances
\* second by second.
InitClock ==
    /\ LedgerInit
    /\ TasksInit
    /\ is_mining = [m \in Miners |-> m = 1]
    /\ ticks = [m \in Miners |-> MineTicks]
    /\ device_ops = MineDeviceOps
    /\ overflow_checks = TRUE

NextClock ==
    \/ \E m \in Miners : MinerStep(m)
    \/ DeviceStep
    \/ AdvanceClock

SpecClock == InitClock /\ [][NextClock]_vars

\* The transfer handlers over the ledger; no miner runs.
InitTransfer ==
    /\ LedgerInit
    /\ TasksInit
    /\ is_mining = [m \in Miners |-> FALSE]
    /\ ticks = [m \in Miners |-> 0]
    /\ device_ops = 0
    /\ overflow_checks \in BOOLEAN

NextTransfer ==
    \/ \E r \in Requests : TransferStep(r)
    \/ AdvanceClock

SpecTransfer == InitTransfer /\ [][NextTransfer]_vars

\* ------------------------------------------------------------- properties
RECURSIVE SumOver(_, _)
SumOver(f, S) ==
    IF S = {} THEN 0
    ELSE LET x == CHOOSE y \in S : TRUE IN f[x] + SumOver(f, S \ {x})

\* the sum of all ledger balances
TotalBalance(b) == SumOver(b, DOMAIN b)

\* the sum of the amounts of the mining-reward transactions in the store
RewardsWritten ==
    SumOver([h \in DOMAIN tx_store |->
                IF tx_store[h].transaction_type = "mining_reward"
                THEN tx_store[h].amount ELSE 0],
            DOMAIN tx_store)

\* no miner is inside a tick, and every tick begun has stored its block
MinersQuiet == \A m \in Miners : pc[m] = "loop" /\ (loc[m] # MinerLoc0 => loc[m].stored)

\* miner m is the only miner that has begun a tick
OnlyTicker(m) == \A o \in Miners \ {m} : pc[o] = "loop" /\ loc[o] = MinerLoc0

\* the greatest height with a stored block
MaxStoredHeight == CHOOSE h \in DOMAIN blocks : \A g \in DOMAIN blocks : g <= h

\* the height a tick found when it began (an absent key reads as 1)
HeightAtStart(m) == IF loc[m].h0 = {} THEN 1 ELSE Opt(loc[m].h0)

\* C1: the heights at which ticks store their blocks are strictly increasing
\* in the order of the stores, also when several miner loops run: no two
\* ticks store a block at the same height.
C1_StoredHeightsStrictlyIncrease ==
    \A i, j \in 1..Len(stored_log) :
        i < j => stored_log[i].height < stored_log[j].height

\* C7: whenever no tick is in progress, the sum of all balances minus the
\* genesis allocation equals the sum of the amounts of all mining-reward
\* transactions written so far.
C7_SupplyEqualsRewards ==
    MinersQuiet => TotalBalance(balance) - TotalBalance(GenesisAlloc) = RewardsWritten

\* C8: a tick that found no active device has, when it goes on to build its
\* block, written exactly one reward transaction of 6_250_000 to the
\* ecosystem address, and the ledger balance of the ecosystem address has
\* grown by that amount.
C8_EcosystemFallbackCredited ==
    \A m \in Miners :
        (pc[m] = "store_put" /\ loc[m].active = <<>>) =>
            /\ Len(loc[m].txs) = 1
            /\ loc[m].txs[1].to = EcoAddress
            /\ loc[m].txs[1].amount = BlockReward
            /\ loc[m].txs[1].hash \in DOMAIN tx_store
            /\ balance[EcoAddress] = loc[m].bal0[EcoAddress] + BlockReward

\* C9: the first block stored by a tick on a fresh ledger is at height 1,
\* consecutive ticks of one miner store at consecutive heights, and a tick
\* that ran alone and stored its block has advanced the recorded height by
\* exactly 1.
C9_TickAdvancesHeightByOne ==
    /\ stored_log # <<>> => stored_log[1].height = 1
    /\ \A i, j \in 1..Len(stored_log) :
          ( /\ i < j
            /\ stored_log[i].miner = stored_log[j].miner
            /\ \A k \in (i + 1)..(j - 1) : stored_log[k].miner # stored_log[i].miner ) =>
                stored_log[j].height = stored_log[i].height + 1
    /\ \A m \in Miners :
          (pc[m] = "finish" /\ loc[m].stored /\ OnlyTicker(m)) =>
              get_block_height = HeightAtStart(m) + 1

\* C10: the recorded latest height never exceeds the greatest height at
\* which a block is stored, and a tick whose store_block failed leaves the
\* recorded height as it found it.
C10_HeightFollowsStoredBlocks ==
    /\ \A h \in block_height : h <= MaxStoredHeight
    /\ \A m \in Miners :
          (pc[m] = "finish" /\ ~loc[m].stored /\ OnlyTicker(m)) =>
              block_height = loc[m].h0

\* C5: when a tick has gone through its M > 0 active devices, the ledger
\* balances have grown in total by M * floor(R / M) (one miner loop running,
\* so nothing else writes balances during the tick).
C5_RewardFullyDistributed ==
    \A m \in Miners :
        (pc[m] = "store_put" /\ loc[m].active # <<>>) =>
            TotalBalance(balance) - TotalBalance(loc[m].bal0)
                = Len(loc[m].active) * (BlockReward \div Len(loc[m].active))

\* C6: a device the monitor has stopped for a heartbeat older than
\* grace_period, and that has not contacted the server since, is not
\* credited by any tick that reads the active devices afterwards.
C6_EvictedDeviceNotRewarded ==
    \A m \in Miners :
        pc[m] = "bal_set" => loc[m].active[loc[m].idx] \notin loc[m].evicted0

\* the requests that have been received
Received == {r \in Requests : pc[r] # "idle"}

\* what request r debits from its sender when it succeeds
Debit(r) == IF loc[r].result = "success" THEN loc[r].amount + Fee ELSE 0

\* C2: when all the transfers of a run are device transfers from a1 to a2
\* and all have returned, the sender's balance is its initial balance minus
\* amount + fee of every transfer that succeeded, and is not overdrawn.
C2_ConcurrentTransfersLinearize ==
    ( /\ Received # {}
      /\ \A r \in Received : /\ pc[r] = "done"
                             /\ loc[r].kind = "device"
                             /\ loc[r].from = "a1"
                             /\ loc[r].to = "a2" ) =>
        /\ SumOver([r \in Received |-> Debit(r)], Received) <= InitFunds
        /\ balance["a1"] = InitFunds - SumOver([r \in Received |-> Debit(r)], Received)

\* C3: a transfer that returns the insufficient-balance error has changed
\* nothing in the ledger: no transaction record, no registry entry, no count.
C3_FailedTransferWritesNothing ==
    \A r \in Requests :
        (pc[r] = "done" /\ loc[r].result = "insufficient") => ~loc[r].wrote

\* the balances after debiting amount + fee from `from` and then crediting
\* amount to `to`
Transferred(b, from, to, amount) ==
    LET b1 == [b EXCEPT ![from] = b[from] - (amount + Fee)]
    IN  [b1 EXCEPT ![to] = b1[to] + amount]

\* C4: a transfer that is the only request of the run and succeeds was
\* covered by the sender's balance (amount + fee), and has debited the
\* sender by amount + fee and credited the receiver by amount, on either
\* entry point and for every pair of addresses.
C4_AcceptedTransferDebitsAndCredits ==
    \A r \in Requests :
        (pc[r] = "done" /\ loc[r].result = "success" /\ Received = {r}) =>
            /\ GenesisAlloc[loc[r].from] >= loc[r].amount + Fee
            /\ balance = Transferred(GenesisAlloc, loc[r].from, loc[r].to, loc[r].amount)

\* A miner task whose store_block call has just returned Ok: the block and
\* every transaction of it were written and the tick is about to make its
\* second increment_block_height.
StoreReturned(m) == pc[m] = "ibh_get" /\ loc[m].ret = "finish" /\ loc[m].stored

\* C11: when store_block(B) has returned success, reading the block back at
\* B.height gives B itself, and the recorded latest height is at least
\* B.height.
C11_StoredBlockReadBack ==
    \A m \in Miners :
        StoreReturned(m) =>
            /\ loc[m].h \in DOMAIN blocks
            /\ blocks[loc[m].h] = real_block(m)
            /\ get_block_height >= loc[m].h

\* C12: a block stored at height h is never replaced: every step of every
\* task leaves the block under each occupied height as it was.
C12_StoredBlockNeverOverwritten ==
    [][\A h \in DOMAIN blocks : blocks'[h] = blocks[h]]_vars

\* the program points of add_transaction
AddTxStates == {"atx_put", "atx_reg_get", "atx_reg_put", "atx_cnt_get", "atx_cnt_put"}

\* Miner m is inside store_block, applying add_transaction a second time to
\* a transaction its tick has already added.
ReAdding(m) ==
    /\ loc[m].stored
    /\ loc[m].ret = "store_txs"
    /\ pc[m] \in AddTxStates \cup {"store_txs"}

\* C13: add_transaction applied a second time to the same transaction, with
\* no other task adding transactions in between, changes neither the registry
\* of transaction hashes nor the transaction counter.
C13_AddTransactionIdempotent ==
    [][(\E m \in Miners : ReAdding(m)) =>
           /\ tx_registry' = tx_registry
           /\ transaction_count' = transaction_count]_vars

\* a tick has re-added at least one of its transactions through store_block
C13_Witness ==
    \E m \in Miners :
        /\ loc[m].stored
        /\ pc[m] = "store_txs"
        /\ loc[m].sidx > 1
        /\ Contains(tx_registry, loc[m].txs[1].hash)

\* C14: whenever no task is inside add_transaction, get_transaction_count,
\* the length of the registry of transaction hashes and the number of
\* distinct tx:{hash} keys of the ledger are the same number.
C14_CountMatchesStoredTransactions ==
    (\A p \in Procs : pc[p] \notin AddTxStates) =>
        /\ get_transaction_count = Len(tx_registry)
        /\ get_transaction_count = Cardinality(DOMAIN tx_store)

\* C15: every transaction listed in a stored block, the genesis block
\* included, carries the block's timestamp and the block's height.
C15_BlockTransactionsConsistent ==
    \A h \in DOMAIN blocks :
        \A i \in 1..Len(blocks[h].transactions) :
            /\ blocks[h].transactions[i].timestamp = blocks[h].timestamp
            /\ blocks[h].transactions[i].block_height = blocks[h].height

\* a tick that began after the clock had advanced has stored a block that
\* holds the reward transaction of a device
C15_Witness ==
    \E h \in DOMAIN blocks :
        /\ h > 0
        /\ blocks[h].timestamp > 0
        /\ \E i \in 1..Len(blocks[h].transactions) :
              blocks[h].transactions[i].to \in Addresses

\* ------------------------------------- start_miner / stop_miner, call by call
\* The handlers of two requests run on different worker threads, and
\* set_device_session and remove_device_session are each several RPC_DB calls.
\* Here every call on the session keys is a step of its own; the address and
\* the auto-detection table are updated in one step each.

\* the part of the state the start and stop handlers never touch
SessionFrame ==
    UNCHANGED <<block_height, blocks, tx_store, tx_registry, transaction_count,
                balance, now, minerVars, stored_log, device_ops, overflow_checks,
                heartbeat_response, extraVars>>

\* start_miner_impl : start_production_mining succeeds; session_id and
\* current_time are taken
StartMinerBegin(r) ==
    /\ pc[r] = "idle"
    /\ \E d \in Devices, a \in Addresses :
          loc' = [loc EXCEPT ![r] = [ReqLoc0 EXCEPT !.kind = "start_miner", !.dev = d,
                                                    !.addr = a, !.ts = now]]
    /\ global_miner' = TRUE
    /\ evicted' = evicted \ {loc'[r].dev}
    /\ pc' = [pc EXCEPT ![r] = "sds_put"]
    /\ UNCHANGED <<device_session, session_keys_registry, device_addr,
                   device_ids_registry, connections>>
    /\ SessionFrame

\* set_device_session : RPC_DB.put("device_session:{id}", (session_id, ts))
SetSessionPut(r) ==
    /\ pc[r] = "sds_put"
    /\ device_session' =
          [device_session EXCEPT ![loc[r].dev] =
              {<<SessionId(loc[r].dev, loc[r].ts), loc[r].ts>>}]
    /\ pc' = [pc EXCEPT ![r] = "sds_reg_get"]
    /\ UNCHANGED <<session_keys_registry, device_addr, device_ids_registry,
                   connections, global_miner, evicted, loc>>
    /\ SessionFrame

\* set_device_session : RPC_DB.get("session_keys_registry"); contains
SetSessionRegGet(r) ==
    /\ pc[r] = "sds_reg_get"
    /\ loc' = [loc EXCEPT ![r].reg = session_keys_registry]
    /\ pc' = [pc EXCEPT ![r] = IF Contains(session_keys_registry, loc[r].dev)
                                 THEN "sm_addr" ELSE "sds_reg_put"]
    /\ UNCHANGED <<device_session, session_keys_registry, device_addr,
                   device_ids_registry, connections, global_miner, evicted>>
    /\ SessionFrame

\* set_device_session : session_keys.push(id); RPC_DB.put(registry)
SetSessionRegPut(r) ==
    /\ pc[r] = "sds_reg_put"
    /\ session_keys_registry' = Append(loc[r].reg, loc[r].dev)
    /\ pc' = [pc EXCEPT ![r] = "sm_addr"]
    /\ UNCHANGED <<device_session, device_addr, device_ids_registry,
                   connections, global_miner, evicted, loc>>
    /\ SessionFrame

\* start_miner_impl : set_device_address
StartMinerAddress(r) ==
    /\ pc[r] = "sm_addr"
    /\ SetDeviceAddress(loc[r].dev, loc[r].addr)
    /\ pc' = [pc EXCEPT ![r] = "sm_detect"]
    /\ UNCHANGED <<device_session, session_keys_registry, connections,
                   global_miner, evicted, loc>>
    /\ SessionFrame

\* start_miner_impl : AUTO_DETECTION.register_device, start_mining; response
StartMinerDetect(r) ==
    /\ pc[r] = "sm_detect"
    /\ connections' =
          SetMining([connections EXCEPT ![loc[r].dev] =
                        {DeviceConnection(loc[r].dev,
                                          SessionId(loc[r].dev, loc[r].ts), loc[r].addr)}],
                    loc[r].dev, TRUE)
    /\ Done(r, "success")
    /\ UNCHANGED <<device_session, session_keys_registry, device_addr,
                   device_ids_registry, global_miner, evicted>>
    /\ SessionFrame

\* stop_miner_impl : stop_production_mining succeeds
StopMinerBegin(r) ==
    /\ pc[r] = "idle"
    /\ \E d \in Devices :
          loc' = [loc EXCEPT ![r] = [ReqLoc0 EXCEPT !.kind = "stop_miner", !.dev = d]]
    /\ global_miner' = FALSE
    /\ evicted' = evicted \ {loc'[r].dev}
    /\ pc' = [pc EXCEPT ![r] = "rds_del"]
    /\ UNCHANGED <<device_session, session_keys_registry, device_addr,
                   device_ids_registry, connections>>
    /\ SessionFrame

\* remove_device_session : RPC_DB.delete("device_session:{id}")
RemoveSessionDelete(r) ==
    /\ pc[r] = "rds_del"
    /\ device_session' = [device_session EXCEPT ![loc[r].dev] = {}]
    /\ pc' = [pc EXCEPT ![r] = "rds_reg_get"]
    /\ UNCHANGED <<session_keys_registry, device_addr, device_ids_registry,
                   connections, global_miner, evicted, loc>>
    /\ SessionFrame

\* remove_device_session : RPC_DB.get("session_keys_registry")
RemoveSessionRegGet(r) ==
    /\ pc[r] = "rds_reg_get"
    /\ loc' = [loc EXCEPT ![r].reg = session_keys_registry]
    /\ pc' = [pc EXCEPT ![r] = "rds_reg_put"]
    /\ UNCHANGED <<device_session, session_keys_registry, device_addr,
                   device_ids_registry, connections, global_miner, evicted>>
    /\ SessionFrame

\* remove_device_session : session_keys.retain(..); RPC_DB.put(registry)
RemoveSessionRegPut(r) ==
    /\ pc[r] = "rds_reg_put"
    /\ session_keys_registry' = Without(loc[r].reg, loc[r].dev)
    /\ pc' = [pc EXCEPT ![r] = "sm_stop"]
    /\ UNCHANGED <<device_session, device_addr, device_ids_registry,
                   connections, global_miner, evicted, loc>>
    /\ SessionFrame

\* stop_miner_impl : AUTO_DETECTION.stop_mining; response
StopMinerDetect(r) ==
    /\ pc[r] = "sm_stop"
    /\ connections' = SetMining(connections, loc[r].dev, FALSE)
    /\ Done(r, "success")
    /\ UNCHANGED <<device_session, session_keys_registry, device_addr,
                   device_ids_registry, global_miner, evicted>>
    /\ SessionFrame

\* one step of the handler of a start or stop request
SessionStep(r) ==
    \/ StartMinerBegin(r)
    \/ SetSessionPut(r)
    \/ SetSessionRegGet(r)
    \/ SetSessionRegPut(r)
    \/ StartMinerAddress(r)
    \/ StartMinerDetect(r)
    \/ StopMinerBegin(r)
    \/ RemoveSessionDelete(r)
    \/ RemoveSessionRegGet(r)
    \/ RemoveSessionRegPut(r)
    \/ StopMinerDetect(r)

\* Start and stop requests served concurrently; no miner loop runs.
InitSession ==
    /\ LedgerInit
    /\ TasksInit
    /\ is_mining = [m \in Miners |-> FALSE]
    /\ ticks = [m \in Miners |-> 0]
    /\ device_ops = 0
    /\ overflow_checks = TRUE

NextSession == \E r \in Requests : SessionStep(r)

SpecSession == InitSession /\ [][NextSession]_vars

\* the devices that have a device_session record
WithSession == {d \in Devices : device_session[d] # {}}

\* C16: whenever no handler is in the middle of a session operation, the
\* ids listed in session_keys_registry are exactly the devices that have a
\* device_session record.
C16_RegistryTracksSessions ==
    (\A r \in Requests : pc[r] \in {"idle", "done"}) =>
        SeqToSet(session_keys_registry) = WithSession

\* ------------------------------------------------ session cleanup scheduler
\* main spawns a task that every CleanupInterval seconds runs
\* cleanup_old_sessions(SessionMaxAge) and then removes the session of every
\* active device whose session timestamp is more than InactivityLimit old.
CleanupInterval == 300
SessionMaxAge == 86400
InactivityLimit == 300

\* the clock value up to which the cleanup scheduler is followed, and the
\* device requests that may arrive between two of its rounds
ExpiryClock == 87000
ExpiryOps == 1

\* the devices that send requests while the scheduler is followed
ExpiryDevices == {"d1"}

\* u64::saturating_sub
saturating_sub(a, b) == IF a >= b THEN a - b ELSE 0

\* the timestamp stored in a session record (session_id, timestamp)
SessionTimestamp(sess, d) == Opt(sess[d])[2]

\* cleanup_old_sessions : remaining_keys, the registered ids whose session
\* exists and is not older than the cutoff
RECURSIVE RemainingKeys(_, _, _)
RemainingKeys(reg, sess, cutoff) ==
    IF reg = <<>> THEN <<>>
    ELSE IF sess[Head(reg)] # {} /\ ~(SessionTimestamp(sess, Head(reg)) < cutoff)
         THEN <<Head(reg)>> \o RemainingKeys(Tail(reg), sess, cutoff)
         ELSE RemainingKeys(Tail(reg), sess, cutoff)

\* cleanup_old_sessions : the session records after keys_to_delete are deleted
AfterCleanup(reg, sess, cutoff) ==
    [d \in Devices |->
        IF Contains(reg, d) /\ sess[d] # {} /\ SessionTimestamp(sess, d) < cutoff
        THEN {} ELSE sess[d]]

\* the scheduler's second pass : the active devices whose session has seen
\* no heartbeat for more than InactivityLimit seconds at time t
Inactive(reg, sess, t) ==
    {d \in SeqToSet(reg) :
        sess[d] # {} /\ saturating_sub(t, SessionTimestamp(sess, d)) > InactivityLimit}

\* remove_device_session for every device of a set, in registry order
RECURSIVE WithoutAll(_, _)
WithoutAll(reg, ds) ==
    IF reg = <<>> THEN <<>>
    ELSE IF Head(reg) \in ds THEN WithoutAll(Tail(reg), ds)
    ELSE <<Head(reg)>> \o WithoutAll(Tail(reg), ds)

\* one round of the scheduler, CleanupInterval seconds after the last one
CleanupTick ==
    /\ now + CleanupInterval <= ExpiryClock
    /\ now' = now + CleanupInterval
    /\ LET cutoff == saturating_sub(now', SessionMaxAge)
           reg1 == RemainingKeys(session_keys_registry, device_session, cutoff)
           sess1 == AfterCleanup(session_keys_registry, device_session, cutoff)
           gone == Inactive(reg1, sess1, now')
       IN  /\ device_session' = [d \in Devices |-> IF d \in gone THEN {} ELSE sess1[d]]
           /\ session_keys_registry' = WithoutAll(reg1, gone)
    /\ device_ops' = ExpiryOps
    /\ UNCHANGED <<block_height, blocks, tx_store, tx_registry, transaction_count,
                   balance, device_addr, device_ids_registry, pc, loc, minerVars,
                   stored_log, connections, global_miner, evicted, overflow_checks,
                   heartbeat_response, extraVars>>

\* The scheduler and the requests of one device; no miner loop runs.
InitExpiry ==
    /\ LedgerInit
    /\ TasksInit
    /\ is_mining = [m \in Miners |-> FALSE]
    /\ ticks = [m \in Miners |-> 0]
    /\ device_ops = ExpiryOps
    /\ overflow_checks = TRUE

NextExpiry ==
    \/ CleanupTick
    \/ \E d \in ExpiryDevices, a \in Addresses : StartMiner(d, a)
    \/ \E d \in ExpiryDevices : DeviceHeartbeat(d, SessionId(d, 0))

SpecExpiry == InitExpiry /\ [][NextExpiry]_vars

\* the creation time of a session opened by start_miner, which is written in
\* its session id "session_{device}_{time}"
CreatedAt(d) == Opt(device_session[d])[1][3]

\* C17: no session opened by start_miner is still stored once the scheduler
\* has run at a time more than SessionMaxAge after the session was created,
\* whatever heartbeats the device has sent.
C17_SessionExpiryAbsolute ==
    \A d \in Devices :
        (device_session[d] # {} /\ Opt(device_session[d])[1][1] = "session") =>
            now - CreatedAt(d) <= SessionMaxAge

\* C18: a miner_register request for a device that is already registered
\* with is_mining = true leaves the device registered with is_mining = true.
C18_ReRegisterKeepsMining ==
    [][\A d \in Devices :
          (/\ connections[d] # {}
           /\ Opt(connections[d]).is_mining
           /\ \E t \in Tokens, a \in WalletInputs : MinerRegister(d, t, a))
          => (connections'[d] # {} /\ Opt(connections'[d]).is_mining)]_vars

\* C19: a mining heartbeat for a device that is not registered, or with a
\* session token other than the stored one, is answered with success = false
\* (message "Invalid session token" when the token differs) and leaves the
\* entry of every device exactly as it was.
C19_RejectedHeartbeatChangesNothing ==
    [][\A d \in Devices : \A t \in Tokens \cup {SessionId(d, 0)} :
          (/\ MiningHeartbeat(d, t)
           /\ (connections[d] = {} \/ Opt(connections[d]).session_token # t))
          => /\ ~heartbeat_response'.success
             /\ connections[d] # {} => heartbeat_response'.message = "Invalid session token"
             /\ connections' = connections]_vars

\* the last heartbeat was rejected for its token, at a time when accepting it
\* would have moved the last_heartbeat of a mining device
C19_Witness ==
    /\ heartbeat_response.message = "Invalid session token"
    /\ \E d \in Devices :
          /\ heartbeat_response.device = d
          /\ connections[d] # {}
          /\ Opt(connections[d]).is_mining
          /\ Opt(connections[d]).last_heartbeat < now

\* C20: at every round of the monitor, a mining device whose last heartbeat
\* is at most grace_period old keeps its entry with is_mining = true, also
\* when the heartbeat is older than heartbeat_timeout, and a mining device
\* whose last heartbeat is more than grace_period old gets is_mining = false
\* in that very round.
C20_GraceWindow ==
    [][\A d \in Devices :
          (MonitorTick /\ connections[d] # {} /\ Opt(connections[d]).is_mining)
          => IF now' - Opt(connections[d]).last_heartbeat > GracePeriod
             THEN connections'[d] # {} /\ ~Opt(connections'[d]).is_mining
             ELSE connections'[d] = connections[d]]_vars

\* the monitor has stopped a device that had been silent past the grace
\* period, and nothing has been heard of the device since
C20_Witness ==
    \E d \in evicted :
        /\ connections[d] # {}
        /\ ~Opt(connections[d]).is_mining
        /\ now - Opt(connections[d]).last_heartbeat > GracePeriod

\* ------------------------------- MiningAutoDetection, lock by lock
\* One round of the monitoring loop and one unregister_device call, with the
\* connections mutex and the stop callback made visible.  The callback is a
\* synchronous Fn: it runs inside the call that invokes it, between the step
\* that enters it and the step at which it returns.

\* the part of the state the monitoring task never touches
MonitorFrame ==
    UNCHANGED <<ledgerVars, pc, loc, minerVars, stored_log, global_miner,
                device_ops, overflow_checks, heartbeat_response, has_callback,
                nodeVars, balancerVars, consensusVars, rewardVars, restVars>>

\* interval.tick(); connections.lock(); the loop over the table that fills
\* devices_to_stop and devices_to_remove
MonitorLock ==
    /\ monitor.pc = "sleep"
    /\ mutex = ""
    /\ now + CheckInterval <= MaxClock
    /\ now' = now + CheckInterval
    /\ mutex' = "monitor"
    /\ monitor' = [pc |-> "stop", to_stop |-> devices_to_stop(now'),
                   to_remove |-> devices_to_remove(now')]
    /\ UNCHANGED <<connections, evicted, callback_running>>
    /\ MonitorFrame

\* for device_id in &devices_to_stop : is_mining = false, and the callback is
\* entered when one is installed
MonitorStopDevice ==
    /\ monitor.pc = "stop"
    /\ \E d \in monitor.to_stop :
          /\ connections' = [connections EXCEPT ![d] =
                                {[Opt(connections[d]) EXCEPT !.is_mining = FALSE]}]
          /\ evicted' = evicted \cup {d}
          /\ monitor' = [monitor EXCEPT !.to_stop = monitor.to_stop \ {d},
                                        !.pc = IF has_callback THEN "callback" ELSE "stop"]
          /\ callback_running' = IF has_callback THEN {d} ELSE {}
    /\ UNCHANGED <<now, mutex>>
    /\ MonitorFrame

\* callback(device_id, false) returns
MonitorCallbackReturn ==
    /\ monitor.pc = "callback"
    /\ callback_running' = {}
    /\ monitor' = [monitor EXCEPT !.pc = "stop"]
    /\ UNCHANGED <<now, mutex, connections, evicted>>
    /\ MonitorFrame

\* for device_id in &devices_to_remove : remove; drop(connections_guard)
MonitorUnlock ==
    /\ monitor.pc = "stop"
    /\ monitor.to_stop = {}
    /\ connections' = [d \in Devices |->
                          IF d \in monitor.to_remove THEN {} ELSE connections[d]]
    /\ mutex' = ""
    /\ monitor' = MonitorIdle
    /\ UNCHANGED <<now, evicted, callback_running>>
    /\ MonitorFrame

\* the part of the state the unregister handler never touches
UnregisterFrame ==
    UNCHANGED <<block_height, blocks, tx_store, tx_registry, transaction_count,
                balance, now, minerVars, stored_log, overflow_checks,
                heartbeat_response, has_callback, monitor, nodeVars,
                balancerVars, consensusVars, rewardVars, restVars>>

\* miner_unregister : stop_production_mining; unregister_device takes the
\* mutex and, for a mining device, enters the callback when one is installed
UnregisterLock(r) ==
    /\ pc[r] = "idle"
    /\ mutex = ""
    /\ \E d \in Devices :
          /\ ServeDevice(d)
          /\ loc' = [loc EXCEPT ![r] = [ReqLoc0 EXCEPT !.kind = "miner_unregister",
                                                    !.dev = d]]
          /\ IF connections[d] # {} /\ Opt(connections[d]).is_mining /\ has_callback
             THEN /\ callback_running' = {d}
                  /\ pc' = [pc EXCEPT ![r] = "unreg_callback"]
             ELSE /\ callback_running' = {}
                  /\ pc' = [pc EXCEPT ![r] = "unreg_remove"]
    /\ global_miner' = FALSE
    /\ mutex' = "unregister"
    /\ UNCHANGED <<device_session, session_keys_registry, device_addr,
                   device_ids_registry, connections>>
    /\ UnregisterFrame

\* unregister_device : callback(device_id, false) returns
UnregisterCallbackReturn(r) ==
    /\ pc[r] = "unreg_callback"
    /\ callback_running' = {}
    /\ pc' = [pc EXCEPT ![r] = "unreg_remove"]
    /\ UNCHANGED <<device_session, session_keys_registry, device_addr,
                   device_ids_registry, connections, global_miner, evicted,
                   device_ops, mutex, loc>>
    /\ UnregisterFrame

\* unregister_device : connections.remove(device_id); the guard is dropped
UnregisterRemove(r) ==
    /\ pc[r] = "unreg_remove"
    /\ connections' = [connections EXCEPT ![loc[r].dev] = {}]
    /\ mutex' = ""
    /\ pc' = [pc EXCEPT ![r] = "unreg_ledger"]
    /\ UNCHANGED <<device_session, session_keys_registry, device_addr,
                   device_ids_registry, global_miner, evicted, device_ops,
                   callback_running, loc>>
    /\ UnregisterFrame

\* miner_unregister : remove_device_session, remove_device_address; response
UnregisterLedger(r) ==
    /\ pc[r] = "unreg_ledger"
    /\ RemoveDeviceSession(loc[r].dev)
    /\ RemoveDeviceAddress(loc[r].dev)
    /\ Done(r, "success")
    /\ UNCHANGED <<connections, global_miner, evicted, device_ops, mutex,
                   callback_running>>
    /\ UnregisterFrame

\* start_miner_impl, served while no other task holds the mutex
StartMinerUnlocked(d, a) ==
    /\ mutex = ""
    /\ StartMiner(d, a)

\* An auto-detection instance with or without a callback installed, the
\* monitoring task, and start and unregister requests; no miner loop runs.
InitLock ==
    /\ LedgerInit
    /\ HandlersInit
    /\ mutex = ""
    /\ callback_running = {}
    /\ has_callback \in BOOLEAN
    /\ monitor = MonitorIdle
    /\ NodeInit
    /\ BalancerInit
    /\ ConsensusInit
    /\ RewardInit
    /\ RestInit
    /\ is_mining = [m \in Miners |-> FALSE]
    /\ ticks = [m \in Miners |-> 0]
    /\ device_ops = MaxDeviceOps
    /\ overflow_checks = TRUE

NextLock ==
    \/ MonitorLock
    \/ MonitorStopDevice
    \/ MonitorCallbackReturn
    \/ MonitorUnlock
    \/ \E d \in Devices, a \in Addresses : StartMinerUnlocked(d, a)
    \/ \E r \in Requests :
          \/ UnregisterLock(r)
          \/ UnregisterCallbackReturn(r)
          \/ UnregisterRemove(r)
          \/ UnregisterLedger(r)

SpecLock == InitLock /\ [][NextLock]_vars

\* C21: no stop callback runs while a task holds the connections mutex.
C21_CallbacksRunUnlocked ==
    callback_running # {} => mutex = ""

\* the session token stored for device d
StoredToken(d) == Opt(device_session[d])[1]

\* C22: a start_miner request for a device that has a session, made while
\* the production miner is already running, leaves the stored session token
\* of the device as it was (the response carries the stored token).
C22_StartIsIdempotent ==
    [][\A d \in Devices :
          (/\ global_miner
           /\ device_session[d] # {}
           /\ \E a \in Addresses : StartMiner(d, a))
          => (device_session'[d] # {} /\ StoredToken(d)' = StoredToken(d))]_vars

\* ------------------------------------------------------ EcosystemMiner::stop
\* is_mining.store(false); the spawned loop reads the flag at the head of
\* its next iteration
MinerStop(m) ==
    /\ is_mining[m]
    /\ is_mining' = [is_mining EXCEPT ![m] = FALSE]
    /\ UNCHANGED <<ledgerVars, now, pc, loc, wallet_balance, total_transactions,
                   ticks, stored_log, detectVars>>

\* EcosystemMiner::is_running
is_running(m) == is_mining[m]

\* One node's miner loop and the device endpoints; stop() may be called at
\* any moment.
InitStop ==
    /\ LedgerInit
    /\ TasksInit
    /\ is_mining = [m \in Miners |-> m = 1]
    /\ ticks = [m \in Miners |-> MaxTicks]
    /\ device_ops = MineDeviceOps
    /\ overflow_checks = TRUE

NextStop ==
    \/ \E m \in Miners : MinerStep(m)
    \/ \E m \in Miners : MinerStop(m)
    \/ DeviceStep

SpecStop == InitStop /\ [][NextStop]_vars

\* C23: once stop() has returned, is_running() stays false and the loop of
\* that miner begins no further tick: only the tick that was in progress
\* goes on to its end.
C23_StopIsEffective ==
    [][\A m \in Miners :
          ~is_running(m) => (~is_running(m)' /\ ticks'[m] = ticks[m])]_vars

\* a miner that was stopped after storing a block is back at the head of its
\* loop with ticks left that it does not begin
C23_Witness ==
    \E m \in Miners :
        /\ ~is_running(m)
        /\ pc[m] = "loop"
        /\ ticks[m] > 0
        /\ \E i \in 1..Len(stored_log) : stored_log[i].miner = m

\* ----------------------------------------------------- FractalNode::shutdown
\* the swarm is taken and its peers disconnected; the miner in the
\* ecosystem_miner field, when there is one, is taken and stopped
NodeShutdown(n) ==
    /\ ~node_down[n]
    /\ node_down' = [node_down EXCEPT ![n] = TRUE]
    /\ node_miner' = [node_miner EXCEPT ![n] = {}]
    /\ is_mining' = [m \in Miners |-> IF m \in node_miner[n] THEN FALSE ELSE is_mining[m]]
    /\ UNCHANGED <<ledgerVars, now, pc, loc, wallet_balance, total_transactions,
                   ticks, stored_log, connections, global_miner, evicted,
                   device_ops, overflow_checks, heartbeat_response, lockVars,
                   balancerVars, consensusVars, rewardVars, restVars>>

\* The miner loop of node 1 runs.  The node was brought up either by
\* FractalNode::start, which keeps the miner it starts in ecosystem_miner, or
\* by initialize_blockchain_nodes, which starts a miner of its own beside a
\* node whose ecosystem_miner is None.
InitShutdown ==
    /\ LedgerInit
    /\ HandlersInit
    /\ LockInit
    /\ BalancerInit
    /\ ConsensusInit
    /\ RewardInit
    /\ RestInit
    /\ node_miner \in {[n \in Miners |-> {}], [n \in Miners |-> IF n = 1 THEN {1} ELSE {}]}
    /\ node_down = [n \in Miners |-> FALSE]
    /\ is_mining = [m \in Miners |-> m = 1]
    /\ ticks = [m \in Miners |-> MaxTicks]
    /\ device_ops = MineDeviceOps
    /\ overflow_checks = TRUE

NextShutdown ==
    \/ \E m \in Miners : MinerStep(m)
    \/ \E n \in Miners : NodeShutdown(n)
    \/ DeviceStep

SpecShutdown == InitShutdown /\ [][NextShutdown]_vars

\* C24: once shutdown() has completed on a node, the miner that was started
\* for the node is not running and its loop begins no further tick.
C24_ShutdownStopsMiner ==
    [][\A n \in Miners :
          node_down[n] => (~is_running(n) /\ ticks'[n] = ticks[n])]_vars

\* ---------------------------------------------------------------- NodeManager
\* calls of get_healthy_node that arrive in a run
MaxCalls == 3

\* healthy_nodes : the indices whose health flag is set, in ascending order
healthy_nodes(h) == SelectSeq([k \in 1..NodeCount |-> k - 1], LAMBDA i : h[i])

\* the part of the state the node manager and the health monitor never touch
BalancerFrame ==
    UNCHANGED <<ledgerVars, now, minerVars, stored_log, connections, global_miner,
                evicted, device_ops, overflow_checks, heartbeat_response, lockVars,
                nodeVars, node_present, consensusVars, rewardVars, restVars>>

\* NodeManager::get_healthy_node
GetHealthyNode ==
    /\ lb_calls > 0
    /\ lb_calls' = lb_calls - 1
    /\ LET healthy == healthy_nodes(node_health)
       IN  IF healthy = <<>>
           THEN /\ selected' = {}
                /\ counter' = counter
           ELSE /\ selected' = {healthy[(counter % Len(healthy)) + 1]}
                /\ counter' = counter + 1
    /\ UNCHANGED <<node_health, pc, loc>>
    /\ BalancerFrame

\* restart_node : an id of 4 or more is refused; otherwise
\* update_node_health(node_id, false) and the handler sleeps 500 ms
RestartBegin(r) ==
    /\ pc[r] = "idle"
    /\ \E id \in 0..NodeCount :
          IF id >= NodeCount
          THEN /\ pc' = [pc EXCEPT ![r] = "done"]
               /\ loc' = [loc EXCEPT ![r] = [ReqLoc0 EXCEPT !.kind = "restart_node",
                                                         !.node = id,
                                                         !.result = "invalid"]]
               /\ UNCHANGED node_health
          ELSE /\ pc' = [pc EXCEPT ![r] = "restart_sleep"]
               /\ loc' = [loc EXCEPT ![r] = [ReqLoc0 EXCEPT !.kind = "restart_node",
                                                         !.node = id]]
               /\ node_health' = [node_health EXCEPT ![id] = FALSE]
    /\ UNCHANGED <<counter, selected, lb_calls>>
    /\ BalancerFrame

\* restart_node : update_node_health(node_id, true); response
RestartEnd(r) ==
    /\ pc[r] = "restart_sleep"
    /\ node_health' = [node_health EXCEPT ![loc[r].node] = TRUE]
    /\ Done(r, "success")
    /\ UNCHANGED <<counter, selected, lb_calls>>
    /\ BalancerFrame

\* monitor_node_health, every 30 s: a slot that holds a node is healthy
MonitorNodeHealth ==
    /\ node_health' = [i \in Nodes |-> node_present[i]]
    /\ UNCHANGED <<counter, selected, lb_calls, pc, loc>>
    /\ BalancerFrame

\* The node manager after initialize_blockchain_nodes, in which any
\* FractalNode::new may have failed, with restart requests, the health
\* monitor and callers of get_healthy_node; no miner loop is followed.
InitBalance ==
    /\ LedgerInit
    /\ HandlersInit
    /\ LockInit
    /\ NodeInit
    /\ node_present \in [Nodes -> BOOLEAN]
    /\ node_health = node_present
    /\ counter = 0
    /\ selected = {}
    /\ lb_calls = MaxCalls
    /\ ConsensusInit
    /\ RewardInit
    /\ RestInit
    /\ is_mining = [m \in Miners |-> FALSE]
    /\ ticks = [m \in Miners |-> 0]
    /\ device_ops = 0
    /\ overflow_checks = TRUE

NextBalance ==
    \/ GetHealthyNode
    \/ MonitorNodeHealth
    \/ \E r \in Requests : RestartBegin(r) \/ RestartEnd(r)

SpecBalance == InitBalance /\ [][NextBalance]_vars

\* the healthy index that cyclically follows index p
NextHealthy(p, h) ==
    LET k == CHOOSE k \in 1..NodeCount :
                 /\ h[(p + k) % NodeCount]
                 /\ \A j \in 1..(k - 1) : ~h[(p + j) % NodeCount]
    IN  (p + k) % NodeCount

\* C25: get_healthy_node returns None exactly when no node is healthy, and
\* otherwise, when the previous call returned index p, the healthy index
\* that cyclically follows p.
C25_RoundRobin ==
    [][GetHealthyNode =>
          /\ (selected' = {}) <=> (\A i \in Nodes : ~node_health[i])
          /\ (selected # {} /\ selected' # {}) =>
                 selected' = {NextHealthy(Opt(selected), node_health)}]_vars

\* C26: while a restart_node(i) handler is between its two health updates,
\* get_healthy_node does not return i.
C26_RestartingNodeNotSelected ==
    [][\A r \in Requests :
          (GetHealthyNode /\ pc[r] = "restart_sleep") => selected' # {loc[r].node}]_vars

\* ------------------------------------------------------------ VortexConsensus
\* NewBlock messages and Vote messages handled in a run
MaxDeliveries == 2
MaxVotes == 2
\* energy_threshold of the default configuration, and the energy values
\* carried by EnergyUpdate messages
EnergyThreshold == 1
Energies == {0, 1}

\* the hash of the genesis block built by initialize
GenesisBlockHash == 0

\* VortexBlock, reduced to the fields the DAG and validate_block read
VortexBlock(parents, validator) ==
    [parent_hashes |-> parents, validator_id |-> validator]

\* calculate_block_hash of a block that was not hashed before: hashes are
\* numbered in the order in which the blocks are built
FreshHashes == {h \in Hashes \ {GenesisBlockHash} : dag_blocks[h] = {}}
NewHash == CHOOSE h \in FreshHashes : \A g \in FreshHashes : h <= g

\* the part of the state the consensus engine never touches
ConsensusFrame ==
    UNCHANGED <<ledgerVars, now, pc, loc, minerVars, stored_log, connections,
                global_miner, evicted, device_ops, overflow_checks,
                heartbeat_response, lockVars, nodeVars, balancerVars, rewardVars, restVars>>

\* BlockDAG::add_block
add_block(h, block) ==
    /\ dag_blocks' = [dag_blocks EXCEPT ![h] = {block}]
    /\ dag_edges' = [p \in Hashes |->
                        IF p \in block.parent_hashes
                        THEN Append(dag_edges[p], h)
                        ELSE dag_edges[p]]
    /\ dag_tips' = (dag_tips \cup {h}) \ block.parent_hashes

\* VortexConsensus::initialize, called once when the node starts
ConsensusInitialize ==
    /\ validators = {}
    /\ dag_blocks[GenesisBlockHash] = {}
    /\ add_block(GenesisBlockHash, VortexBlock({}, "self"))
    /\ finalized_blocks' = finalized_blocks \cup {GenesisBlockHash}
    /\ validators' = validators \cup {"self"}
    /\ energy_distribution' = [energy_distribution EXCEPT !["self"] = {1}]
    /\ UNCHANGED <<votes_received, deliveries>>
    /\ ConsensusFrame

\* select_validators : the peers whose energy reaches the threshold (with at
\* most two candidates calculate_validator_count keeps them all)
select_validators ==
    {p \in Peers : energy_distribution[p] # {}
                   /\ Opt(energy_distribution[p]) >= EnergyThreshold}

\* consensus_loop, when this node is selected: propose_block with the
\* current tips as parents, then broadcast
ProposeBlock ==
    /\ "self" \in select_validators
    /\ FreshHashes # {}
    /\ add_block(NewHash, VortexBlock(dag_tips, "self"))
    /\ UNCHANGED <<validators, energy_distribution, finalized_blocks,
                   votes_received, deliveries>>
    /\ ConsensusFrame

\* EcosystemMiner tick: the mined block, without parents and signed by a
\* random PeerId, is added to the consensus
MinerAddBlock ==
    /\ FreshHashes # {}
    /\ add_block(NewHash, VortexBlock({}, "random"))
    /\ UNCHANGED <<validators, energy_distribution, finalized_blocks,
                   votes_received, deliveries>>
    /\ ConsensusFrame

\* validate_block, for a block whose hash matches its content
validate_block(block) ==
    /\ block.validator_id \in validators
    /\ energy_distribution[block.validator_id] # {}
    /\ Opt(energy_distribution[block.validator_id]) >= EnergyThreshold
    /\ \A p \in block.parent_hashes : dag_blocks[p] # {}

\* the blocks this node has proposed and broadcast
Broadcast ==
    {h \in Hashes \ {GenesisBlockHash} :
        dag_blocks[h] # {} /\ Opt(dag_blocks[h]).validator_id = "self"}

\* handle_message(NewBlock(block)) for a block that is on the network
HandleNewBlock(h) ==
    /\ h \in Broadcast
    /\ deliveries < MaxDeliveries
    /\ deliveries' = deliveries + 1
    /\ IF validate_block(Opt(dag_blocks[h]))
       THEN add_block(h, Opt(dag_blocks[h]))
       ELSE UNCHANGED <<dag_blocks, dag_edges, dag_tips>>
    /\ UNCHANGED <<validators, energy_distribution, finalized_blocks, votes_received>>
    /\ ConsensusFrame

\* handle_message(Vote(vote)) : process_vote keeps nothing of the vote
ProcessVote(h, voter) ==
    /\ <<h, voter>> \notin votes_received
    /\ Cardinality(votes_received) < MaxVotes
    /\ votes_received' = votes_received \cup {<<h, voter>>}
    /\ UNCHANGED <<validators, energy_distribution, dag_blocks, dag_edges, dag_tips,
                   finalized_blocks, deliveries>>
    /\ ConsensusFrame

\* handle_message(EnergyUpdate(update)) : update_energy_distribution
EnergyUpdate(p, e) ==
    /\ energy_distribution[p] # {e}
    /\ energy_distribution' = [energy_distribution EXCEPT ![p] = {e}]
    /\ UNCHANGED <<validators, dag_blocks, dag_edges, dag_tips, finalized_blocks,
                   votes_received, deliveries>>
    /\ ConsensusFrame

\* should_finalize : the number of blocks in the DAG against the quorum
should_finalize(h) ==
    LET validator_count == Cardinality(validators)
        required_votes == (validator_count * 2 + 2) \div 3
        votes == Cardinality({g \in Hashes : dag_blocks[g] # {}})
    IN  votes >= required_votes

\* finalize_blocks
FinalizeBlocks ==
    /\ finalized_blocks' = finalized_blocks \cup
           {h \in Hashes : dag_blocks[h] # {} /\ should_finalize(h)}
    /\ finalized_blocks' # finalized_blocks
    /\ UNCHANGED <<validators, energy_distribution, dag_blocks, dag_edges, dag_tips,
                   votes_received, deliveries>>
    /\ ConsensusFrame

\* One consensus engine from VortexConsensus::new on, with the consensus
\* loop, the miner and the message handler; nothing else runs.
InitDag ==
    /\ LedgerInit
    /\ HandlersInit
    /\ LockInit
    /\ NodeInit
    /\ BalancerInit
    /\ ConsensusInit
    /\ RewardInit
    /\ RestInit
    /\ is_mining = [m \in Miners |-> FALSE]
    /\ ticks = [m \in Miners |-> 0]
    /\ device_ops = 0
    /\ overflow_checks = TRUE

NextDag ==
    \/ ConsensusInitialize
    \/ ProposeBlock
    \/ MinerAddBlock
    \/ FinalizeBlocks
    \/ \E h \in Hashes : HandleNewBlock(h)
    \/ \E h \in Hashes, voter \in Peers : ProcessVote(h, voter)
    \/ \E p \in Peers, e \in Energies : EnergyUpdate(p, e)

SpecDag == InitDag /\ [][NextDag]_vars

\* the blocks of the DAG that no block of the DAG names as a parent
Childless ==
    {h \in Hashes :
        /\ dag_blocks[h] # {}
        /\ \A c \in Hashes :
              dag_blocks[c] # {} => h \notin Opt(dag_blocks[c]).parent_hashes}

\* C27: tips is exactly the set of blocks of the DAG that have no children.
C27_TipsAreChildless == dag_tips = Childless

\* the voters whose Vote for block h has been processed
VotesFor(h) == {voter \in Peers : <<h, voter>> \in votes_received}

\* C28: finalize_blocks adds a block to the finalized set only if at least
\* ceil(2/3 * |validators|) votes for that block have been processed.
C28_FinalizedHasQuorum ==
    [][FinalizeBlocks =>
          \A h \in finalized_blocks' \ finalized_blocks :
              3 * Cardinality(VotesFor(h)) >= 2 * Cardinality(validators)]_vars

\* --------------------------------------------------------- MiningRewardSystem
\* MiningRewardSystem::new
InitialReward == 625
HalvingInterval == 12614400
MaxHalvings == 32
EcosystemPercentage == 10

\* the heights handed to calculate_reward: wraps * 2^32 * halving_interval
\* + epoch * halving_interval + remainder, all below 2^64
MaxWraps == 1
MaxEpoch == 33
Remainders == {0, 1, HalvingInterval - 1}
Heights ==
    {BlockHeight(w, e * HalvingInterval + r) :
        w \in 0..MaxWraps, e \in 0..MaxEpoch, r \in Remainders}

\* x >> k on u64, for k < 64
RECURSIVE shr(_, _)
shr(x, k) == IF k = 0 THEN x ELSE shr(x \div 2, k - 1)

\* (block_height / halving_interval) as u32 : the quotient is
\* wraps * 2^32 + low / halving_interval, and the cast keeps its low 32 bits
halving_epoch_of(h) == h.low \div HalvingInterval

RewardDistribution(miner, ecosystem, total, epoch, until) ==
    [miner_reward |-> miner, ecosystem_reward |-> ecosystem, total_reward |-> total,
     halving_epoch |-> epoch, blocks_until_halving |-> until]

\* MiningRewardSystem::calculate_reward
calculate_reward(h) ==
    LET halving_epoch == halving_epoch_of(h)
        current_reward == shr(InitialReward, halving_epoch)
        ecosystem_reward == (current_reward * EcosystemPercentage) \div 100
        miner_reward == current_reward - ecosystem_reward
        blocks_until_halving == HalvingInterval - (h.low % HalvingInterval)
    IN  IF halving_epoch >= MaxHalvings
        THEN RewardDistribution(0, 0, 0, halving_epoch, 0)
        ELSE RewardDistribution(miner_reward, ecosystem_reward, current_reward,
                                halving_epoch, blocks_until_halving)

\* a caller (MiningEngine::get_block_reward) asks for the reward of a height
CalculateReward ==
    /\ reward_result = {}
    /\ reward_result' = {calculate_reward(reward_height)}
    /\ UNCHANGED <<ledgerVars, now, pc, loc, minerVars, stored_log, connections,
                   global_miner, evicted, device_ops, overflow_checks,
                   heartbeat_response, lockVars, nodeVars, balancerVars,
                   consensusVars, reward_height, restVars>>

\* The reward system alone, asked for the reward of one height.
InitReward ==
    /\ LedgerInit
    /\ HandlersInit
    /\ LockInit
    /\ NodeInit
    /\ BalancerInit
    /\ ConsensusInit
    /\ reward_height \in Heights
    /\ reward_result = {}
    /\ RestInit
    /\ is_mining = [m \in Miners |-> FALSE]
    /\ ticks = [m \in Miners |-> 0]
    /\ device_ops = 0
    /\ overflow_checks = TRUE

NextReward == CalculateReward

SpecReward == InitReward /\ [][NextReward]_vars

\* block_height < 32 * HALVING_INTERVAL
BelowLastHalving(h) == h.wraps = 0 /\ h.low < MaxHalvings * HalvingInterval

\* C29: the reward of height h is initial_reward >> (h / HALVING_INTERVAL)
\* when h < 32 * HALVING_INTERVAL and 0 otherwise; in particular the last
\* height before HALVING_INTERVAL still earns the initial reward and height
\* HALVING_INTERVAL earns half of it.
C29_HalvingSchedule ==
    reward_result # {} =>
        Opt(reward_result).total_reward =
            IF BelowLastHalving(reward_height)
            THEN shr(InitialReward, reward_height.low \div HalvingInterval)
            ELSE 0

\* the true halving epoch block_height / HALVING_INTERVAL is k
InEpoch(h, k) == h.wraps = 0 /\ h.low \div HalvingInterval = k

\* C30: in halving epoch 0 calculate_reward returns total_reward 6,
\* ecosystem_reward 0 and miner_reward 6; in halving epoch 1 it returns
\* total_reward 3 and halving_epoch 1.
C30_RewardTestValues ==
    reward_result # {} =>
        /\ InEpoch(reward_height, 0) =>
              /\ Opt(reward_result).total_reward = 6
              /\ Opt(reward_result).ecosystem_reward = 0
              /\ Opt(reward_result).miner_reward = 6
        /\ InEpoch(reward_height, 1) =>
              /\ Opt(reward_result).total_reward = 3
              /\ Opt(reward_result).halving_epoch = 1

\* --------------------------------------------------------- DifficultyAdjuster
\* DifficultyAdjuster::new(5, 2023) of MiningEngine::new
TargetBlockTime == 5
AdjustmentInterval == 2023
MaxAdjustmentFactor == 4

\* the difficulties handed to calculate_new_difficulty
MaxDifficulty == 12

\* expected_time = target_block_time * adjustment_interval
ExpectedTime == TargetBlockTime * AdjustmentInterval

\* the sums of the block times of a window: every block at 0 s, at 1 s, at
\* 49 s, and sums around a quarter of, once, twice and four times the
\* expected time
ActualTimes ==
    {0, AdjustmentInterval, 49 * AdjustmentInterval,
     ExpectedTime \div 4, ExpectedTime \div 4 + 1,
     ExpectedTime - 1, ExpectedTime, ExpectedTime + 1,
     2 * ExpectedTime,
     4 * ExpectedTime, 4 * ExpectedTime + 1}

RetargetInputs ==
    {RetargetInput(d, n, t) :
        d \in 1..MaxDifficulty,
        n \in {AdjustmentInterval - 1, AdjustmentInterval},
        t \in ActualTimes}

\* f64::round of the non-negative quotient n / d: half away from zero
RoundDiv(n, d) == (2 * n + d) \div (2 * d)

\* whether expected / actual is a binary fraction, so that the f64 quotient
\* and its product with the difficulty carry no rounding error
ExactFactor(expected, actual) ==
    \E k \in 0..10 : (expected * (2 ^ k)) % actual = 0

\* DifficultyAdjuster::calculate_new_difficulty : the set of values the
\* function can return. The factor is clamped to [1/4, 4] (a division by 0
\* gives +inf, clamped to 4); the product is rounded and raised to 1. Where
\* the exact product lies half-way between two integers and the f64 factor
\* is inexact, the rounding can go to either neighbour.
calculate_new_difficulty(in) ==
    LET c == in.current_difficulty
        actual == in.actual_time
        rounded ==
            IF actual = 0 \/ ExpectedTime > MaxAdjustmentFactor * actual
            THEN {c * MaxAdjustmentFactor}
            ELSE IF MaxAdjustmentFactor * ExpectedTime < actual
            THEN {RoundDiv(c, MaxAdjustmentFactor)}
            ELSE IF (2 * c * ExpectedTime) % (2 * actual) = actual
                    /\ ~ExactFactor(ExpectedTime, actual)
            THEN {(c * ExpectedTime) \div actual, (c * ExpectedTime) \div actual + 1}
            ELSE {RoundDiv(c * ExpectedTime, actual)}
    IN  IF in.times_len < AdjustmentInterval
        THEN {c}
        ELSE {IF n < 1 THEN 1 ELSE n : n \in rounded}

\* a caller (MiningEngine::add_block, get_mining_info) retargets
CalculateNewDifficulty ==
    /\ retarget_result = {}
    /\ \E n \in calculate_new_difficulty(retarget_input) : retarget_result' = {n}
    /\ UNCHANGED <<ledgerVars, now, pc, loc, minerVars, stored_log, connections,
                   global_miner, evicted, device_ops, overflow_checks,
                   heartbeat_response, lockVars, nodeVars, balancerVars,
                   consensusVars, rewardVars, retarget_input, addressVars,
                   restartVars, storeVars>>

\* The difficulty adjuster alone, asked for one retarget.
InitRetarget ==
    /\ LedgerInit
    /\ HandlersInit
    /\ LockInit
    /\ NodeInit
    /\ BalancerInit
    /\ ConsensusInit
    /\ RewardInit
    /\ retarget_input \in RetargetInputs
    /\ retarget_result = {}
    /\ AddressInit
    /\ RestartInit
    /\ StoreInit
    /\ is_mining = [m \in Miners |-> FALSE]
    /\ ticks = [m \in Miners |-> 0]
    /\ device_ops = 0
    /\ overflow_checks = TRUE

NextRetarget == CalculateNewDifficulty

SpecRetarget == InitRetarget /\ [][NextRetarget]_vars

\* the call was made on a full window
FullWindow == retarget_result # {} /\ retarget_input.times_len >= AdjustmentInterval

\* C31: on a full window, 1/4 <= new_difficulty / current_difficulty <= 4.
C31_RetargetClamped ==
    FullWindow =>
        /\ 4 * Opt(retarget_result) >= retarget_input.current_difficulty
        /\ Opt(retarget_result) <= 4 * retarget_input.current_difficulty

\* C32: on a full window the difficulty rises strictly when the total block
\* time is below the expected total, falls strictly when it is above, and
\* stays when it is equal.
C32_RetargetDirection ==
    FullWindow =>
        /\ retarget_input.actual_time < ExpectedTime =>
              Opt(retarget_result) > retarget_input.current_difficulty
        /\ retarget_input.actual_time > ExpectedTime =>
              Opt(retarget_result) < retarget_input.current_difficulty
        /\ retarget_input.actual_time = ExpectedTime =>
              Opt(retarget_result) = retarget_input.current_difficulty

\* --------------------------------------------------------- address validation
\* characters of the inputs; "U+00E9" stands for a character of two bytes
Chars == {"0", "9", "a", "f", "A", "F", "g", " ", "U+00E9"}
ByteLen(c) == IF c = "U+00E9" THEN 2 ELSE 1

\* the string of n characters c
Rep(c, n) == [i \in 1..n |-> c]

\* the hex part has 36 characters; inputs are one shorter to one longer
HexLen == 36
HexParts ==
    {Rep(c, n) : c \in Chars, n \in (HexLen - 1)..(HexLen + 1)}
    \cup {Rep("a", HexLen - 1) \o <<c>> : c \in Chars}
Prefixes == {<<"f", "v", "c">>, <<"F", "V", "C">>, <<"f", "v">>}
Suffixes == {<<"e", "m", "y", "l">>, <<"E", "M", "Y", "L">>, <<"e", "m", "y">>}
AddressStrings ==
    {p \o h \o x : p \in Prefixes, h \in HexParts, x \in Suffixes}
    \cup {<<>>, <<"f", "v", "c", "e", "m", "y", "l">>}

\* str::len : the length in bytes
RECURSIVE str_len(_)
str_len(s) == IF s = <<>> THEN 0 ELSE ByteLen(Head(s)) + str_len(Tail(s))

starts_with(s, p) == Len(s) >= Len(p) /\ SubSeq(s, 1, Len(p)) = p
ends_with(s, x) == Len(s) >= Len(x) /\ SubSeq(s, Len(s) - Len(x) + 1, Len(s)) = x

\* char::is_ascii_hexdigit : 0-9, a-f, A-F
is_ascii_hexdigit(c) == c \in {"0", "9", "a", "f", "A", "F"}

\* &address[3..address.len()-4] of a string that starts with "fvc" and ends
\* with "emyl": the characters between the two
hex_part_of(s) == SubSeq(s, 4, Len(s) - 4)

\* hex::decode(..).is_ok() : an even number of bytes, each a hex digit of
\* either case
hex_decode_ok(s) ==
    /\ str_len(s) % 2 = 0
    /\ \A i \in 1..Len(s) : is_ascii_hexdigit(s[i])

\* KeyManager::validate_address
validate_address(address) ==
    IF ~starts_with(address, <<"f", "v", "c">>) THEN FALSE
    ELSE IF ~ends_with(address, <<"e", "m", "y", "l">>) THEN FALSE
    ELSE IF str_len(address) # 43 THEN FALSE
    ELSE IF str_len(hex_part_of(address)) # HexLen THEN FALSE
    ELSE hex_decode_ok(hex_part_of(address))

\* InputValidator::validate_fvchain_address : TRUE for Ok(())
validate_fvchain_address(address) ==
    IF address = <<>> THEN FALSE
    ELSE IF ~starts_with(address, <<"f", "v", "c">>) THEN FALSE
    ELSE IF ~ends_with(address, <<"e", "m", "y", "l">>) THEN FALSE
    ELSE IF str_len(address) # 43 THEN FALSE
    ELSE IF str_len(hex_part_of(address)) # HexLen THEN FALSE
    ELSE \A i \in 1..Len(hex_part_of(address)) :
             is_ascii_hexdigit(hex_part_of(address)[i])

\* device_save_wallet_address : TRUE when the address passes its checks
save_wallet_address_check(address) ==
    IF address = <<>> THEN FALSE
    ELSE IF str_len(address) # 43 THEN FALSE
    ELSE IF ~starts_with(address, <<"f", "v", "c">>) THEN FALSE
    ELSE IF ~ends_with(address, <<"e", "m", "y", "l">>) THEN FALSE
    ELSE \A i \in 1..Len(hex_part_of(address)) :
             is_ascii_hexdigit(hex_part_of(address)[i])

Verdict(v, address) ==
    CASE v = "key_manager" -> validate_address(address)
      [] v = "input_validation" -> validate_fvchain_address(address)
      [] v = "rpc_server" -> save_wallet_address_check(address)

\* validator v is called on the address
ValidateAddress(v) ==
    /\ address_result[v] = {}
    /\ address_result' = [address_result EXCEPT ![v] = {Verdict(v, address_input)}]
    /\ UNCHANGED <<ledgerVars, now, pc, loc, minerVars, stored_log, connections,
                   global_miner, evicted, device_ops, overflow_checks,
                   heartbeat_response, lockVars, nodeVars, balancerVars,
                   consensusVars, rewardVars, retargetVars, address_input,
                   restartVars, storeVars>>

\* The validators alone, each called once on the same string.
InitAddress ==
    /\ LedgerInit
    /\ HandlersInit
    /\ LockInit
    /\ NodeInit
    /\ BalancerInit
    /\ ConsensusInit
    /\ RewardInit
    /\ RetargetInit
    /\ address_input \in AddressStrings
    /\ address_result = [v \in Validators |-> {}]
    /\ RestartInit
    /\ StoreInit
    /\ is_mining = [m \in Miners |-> FALSE]
    /\ ticks = [m \in Miners |-> 0]
    /\ device_ops = 0
    /\ overflow_checks = TRUE

NextAddress == \E v \in Validators : ValidateAddress(v)

SpecAddress == InitAddress /\ [][NextAddress]_vars

\* the format of the claim: "fvc", 36 lowercase hexadecimal characters, "emyl"
LowercaseHex == {"0", "9", "a", "f"}
NativeFormat(s) ==
    /\ Len(s) = 43
    /\ str_len(s) = 43
    /\ SubSeq(s, 1, 3) = <<"f", "v", "c">>
    /\ SubSeq(s, 40, 43) = <<"e", "m", "y", "l">>
    /\ \A i \in 4..39 : s[i] \in LowercaseHex

\* C33: every validator accepts a string exactly when it is "fvc", 36
\* lowercase hexadecimal characters and "emyl"; hence all validators agree.
C33_AddressValidationExact ==
    \A v \in Validators :
        address_result[v] # {} =>
            (Opt(address_result[v]) <=> NativeFormat(address_input))


\* ------------------------------------------------------- transfers, continued
\* the transfer requests that were answered with success
Succeeded == {r \in Requests : pc[r] = "done" /\ loc[r].result = "success"}

\* C34: two distinct successful transfers never share a transaction hash.
C34_TransfersHaveOwnHash ==
    \A r1, r2 \in Succeeded : r1 # r2 => loc[r1].tx.hash # loc[r2].tx.hash


\* --------------------------------------------------------- balance updates
\* C35: no balance update is lost: whenever a miner loop or a transfer
\* handler writes a balance it has computed from a value it read, the
\* balance in the ledger is still the value it read, so no credit or debit
\* applied in between is overwritten.
C35_NoLostBalanceUpdate ==
    [][/\ \A m \in Miners :
             MinerBalanceSet(m) => balance[loc[m].addr] = loc[m].bal
       /\ \A r \in Requests :
             /\ TransferSenderSet(r) => balance[loc[r].from] = loc[r].sbal
             /\ (TransferReceiverSet(r) /\ loc[r].to # loc[r].from) =>
                    balance[loc[r].to] = loc[r].rbal]_vars


\* ------------------------------------------- EcosystemMiner::start and stop
\* stop() calls made on the miner
MaxStops == 2

\* the part of the state start(), stop() and the loop tasks leave alone here
RestartFrame ==
    UNCHANGED <<ledgerVars, now, pc, loc, minerVars, stored_log, connections,
                global_miner, evicted, device_ops, overflow_checks,
                heartbeat_response, lockVars, nodeVars, balancerVars,
                consensusVars, rewardVars, retargetVars, addressVars,
                storeVars>>

\* start() : if self.is_mining.load() { return Ok(()) }
StartLoad(c) ==
    /\ em_starts[c] = "call"
    /\ em_starts' = [em_starts EXCEPT ![c] = IF em_is_mining THEN "done" ELSE "store"]
    /\ UNCHANGED <<em_is_mining, em_wallet, em_loops, em_stops>>
    /\ RestartFrame

\* start() : self.is_mining.store(true); tokio::spawn of the loop
StartSpawn(c) ==
    /\ em_starts[c] = "store"
    /\ em_is_mining' = TRUE
    /\ em_loops' = [em_loops EXCEPT ![c] = "test"]
    /\ em_starts' = [em_starts EXCEPT ![c] = "done"]
    /\ UNCHANGED <<em_wallet, em_stops>>
    /\ RestartFrame

\* the loop task: while is_mining.load() : the body is entered or the task ends
LoopTest(c) ==
    /\ em_loops[c] = "test"
    /\ em_loops' = [em_loops EXCEPT ![c] = IF em_is_mining THEN "lock" ELSE "ended"]
    /\ UNCHANGED <<em_is_mining, em_wallet, em_starts, em_stops>>
    /\ RestartFrame

\* the loop task: wallet.lock().await returns the guard; the tick begins
LoopLock(c) ==
    /\ em_loops[c] = "lock"
    /\ em_wallet = {}
    /\ em_wallet' = {c}
    /\ em_loops' = [em_loops EXCEPT ![c] = "tick"]
    /\ UNCHANGED <<em_is_mining, em_starts, em_stops>>
    /\ RestartFrame

\* the loop task: the tick is over, tokio::time::sleep(5 s) with the guard held
LoopSleep(c) ==
    /\ em_loops[c] = "tick"
    /\ em_loops' = [em_loops EXCEPT ![c] = "sleep"]
    /\ UNCHANGED <<em_is_mining, em_wallet, em_starts, em_stops>>
    /\ RestartFrame

\* the loop task: the sleep is over, the guard is dropped at the end of the body
LoopWake(c) ==
    /\ em_loops[c] = "sleep"
    /\ em_wallet' = {}
    /\ em_loops' = [em_loops EXCEPT ![c] = "test"]
    /\ UNCHANGED <<em_is_mining, em_starts, em_stops>>
    /\ RestartFrame

\* stop() : self.is_mining.store(false)
StopCall ==
    /\ em_stops > 0
    /\ em_stops' = em_stops - 1
    /\ em_is_mining' = FALSE
    /\ UNCHANGED <<em_wallet, em_loops, em_starts>>
    /\ RestartFrame

\* One EcosystemMiner after new(), with start() calls that may overlap and
\* stop() calls at any moment.
InitRestart ==
    /\ LedgerInit
    /\ HandlersInit
    /\ LockInit
    /\ NodeInit
    /\ BalancerInit
    /\ ConsensusInit
    /\ RewardInit
    /\ RetargetInit
    /\ AddressInit
    /\ em_is_mining = FALSE
    /\ em_wallet = {}
    /\ em_loops = [c \in StartCalls |-> "none"]
    /\ em_starts = [c \in StartCalls |-> "call"]
    /\ em_stops = MaxStops
    /\ StoreInit
    /\ is_mining = [m \in Miners |-> FALSE]
    /\ ticks = [m \in Miners |-> 0]
    /\ device_ops = 0
    /\ overflow_checks = TRUE

NextRestart ==
    \/ StopCall
    \/ \E c \in StartCalls :
          \/ StartLoad(c) \/ StartSpawn(c) \/ LoopTest(c)
          \/ LoopLock(c) \/ LoopSleep(c) \/ LoopWake(c)

SpecRestart == InitRestart /\ [][NextRestart]_vars

\* the loop tasks of the miner that are inside the loop body: waiting for
\* the wallet, in a tick, or asleep before the next test of is_mining
InLoopBody == {c \in StartCalls : em_loops[c] \in {"lock", "tick", "sleep"}}

\* C36: at most one mining loop of the miner is active: two loop tasks are
\* never inside the loop body at the same time.
C36_SingleMiningLoop == Cardinality(InLoopBody) <= 1


\* ------------------------------------------------- a device that stays alive
\* the clock value up to which the two timers are followed together, and the
\* requests the device may send in that time
KeepAliveClock == 600
KeepAliveOps == 64

\* One round of the monitoring loop, CheckInterval seconds after the last
\* one, as in MonitorTick; when the new time is a multiple of
\* CleanupInterval the cleanup scheduler of main runs as well, as in
\* CleanupTick. The two tasks write disjoint state.
TimerTick ==
    /\ now + CheckInterval <= KeepAliveClock
    /\ now' = now + CheckInterval
    /\ connections' =
          [d \in Devices |->
              IF d \in devices_to_stop(now') THEN {[Opt(connections[d]) EXCEPT !.is_mining = FALSE]}
              ELSE IF d \in devices_to_remove(now') THEN {}
              ELSE connections[d]]
    /\ evicted' = evicted \cup devices_to_stop(now')
    /\ IF now' % CleanupInterval = 0
       THEN LET cutoff == saturating_sub(now', SessionMaxAge)
                reg1 == RemainingKeys(session_keys_registry, device_session, cutoff)
                sess1 == AfterCleanup(session_keys_registry, device_session, cutoff)
                gone == Inactive(reg1, sess1, now')
            IN  /\ device_session' = [d \in Devices |-> IF d \in gone THEN {} ELSE sess1[d]]
                /\ session_keys_registry' = WithoutAll(reg1, gone)
       ELSE UNCHANGED <<device_session, session_keys_registry>>
    /\ UNCHANGED <<block_height, blocks, tx_store, tx_registry, transaction_count,
                   balance, device_addr, device_ids_registry, pc, loc, minerVars,
                   stored_log, global_miner, device_ops, overflow_checks,
                   heartbeat_response, extraVars>>

\* the device's last mining heartbeat is less than heartbeat_timeout before t
HeartbeatInTime(d, t) ==
    connections[d] # {} => t - Opt(connections[d]).last_heartbeat < HeartbeatTimeout

\* Device d1 starts mining once and then sends mining heartbeats with its
\* session token; time only passes while its last heartbeat is less than
\* heartbeat_timeout old. The monitor and the cleanup scheduler run.
InitKeepAlive ==
    /\ LedgerInit
    /\ TasksInit
    /\ is_mining = [m \in Miners |-> FALSE]
    /\ ticks = [m \in Miners |-> 0]
    /\ device_ops = KeepAliveOps
    /\ overflow_checks = TRUE

\* the device calls start_miner, once
KeepAliveStart ==
    /\ connections["d1"] = {}
    /\ \E a \in Addresses : StartMiner("d1", a)

\* the device sends a mining heartbeat with its session token
KeepAliveHeartbeat ==
    /\ connections["d1"] # {}
    /\ MiningHeartbeat("d1", Opt(connections["d1"]).session_token)

\* CheckInterval seconds pass, the device being in time
KeepAliveTick ==
    /\ HeartbeatInTime("d1", now + CheckInterval)
    /\ TimerTick

NextKeepAlive ==
    \/ KeepAliveStart
    \/ KeepAliveHeartbeat
    \/ KeepAliveTick

SpecKeepAlive == InitKeepAlive /\ [][NextKeepAlive]_vars

\* C37: a mining device that keeps sending valid mining heartbeats in time
\* is not evicted, keeps is_mining = true and stays among the active devices
\* of get_all_active_devices.
C37_HeartbeatingDeviceKeepsMining ==
    connections["d1"] # {} =>
        /\ "d1" \notin evicted
        /\ Opt(connections["d1"]).is_mining
        /\ Contains(get_all_active_devices, "d1")


\* ---------------------------------------------------------------------------
\* Who is in a tick's reward distribution
\* ---------------------------------------------------------------------------

\* mining has been started for device d and not stopped since: its
\* AUTO_DETECTION connection says is_mining
MiningStarted(d) == connections[d] # {} /\ Opt(connections[d]).is_mining

\* the devices a tick that reads the active list now would pay: those of
\* get_all_active_devices that have a wallet address
Rewardable == {d \in SeqToSet(get_all_active_devices) : device_addr[d] # {}}

\* C38: whenever a miner tick reads the active devices, every device it is
\* going to reward is one for which mining has been started; a device that is
\* only registered, or whose mining was stopped, is not in the distribution.
C38_OnlyMiningDevicesRewarded ==
    [][\A m \in Miners : MinerActiveDevices(m) => \A d \in Rewardable : MiningStarted(d)]_vars


\* ---------------------------------------------------------------------------
\* Reward transactions and their blocks
\* ---------------------------------------------------------------------------

\* the reward transactions of the ticks in progress
InProgressTxs == UNION {SeqToSet(loc[m].txs) : m \in {k \in Miners : pc[k] # "loop"}}

\* the mining-reward transactions the ledger holds under tx:{hash}
RewardTxs == {tx_store[h] : h \in {k \in DOMAIN tx_store : tx_store[k].transaction_type = "mining_reward"}}

\* get_block(height) returns a block that lists tx
InBlockAt(tx, height) ==
    /\ height \in DOMAIN blocks
    /\ Contains(blocks[height].transactions, tx)

\* C39: every mining-reward transaction in the ledger that does not belong
\* to a tick in progress is contained in the block stored at its
\* block_height.
C39_RewardTxHasBlock ==
    \A tx \in RewardTxs \ InProgressTxs : InBlockAt(tx, tx.block_height)


\* ---------------------------------------------------------------------------
\* LedgerDB: byte keys over a LevelDB Database<i32>
\* ---------------------------------------------------------------------------

\* keys the program uses: the blocks of three heights, the height and
\* transaction counters, the transaction registry
LedgerKeys == {"block:538", "block:539", "block:13366", "block_height",
               "transaction_count", "transaction_hashes_registry"}

\* value bytes
LedgerValues == {"v1", "v2"}

\* DefaultHasher::new(); key.hash(&mut hasher); hasher.finish() : the u64 that
\* std's hasher (SipHash-1-3 with zero keys, over the length prefix and the
\* bytes of the slice) returns, as four 16-bit limbs, most significant first
DefaultHasherFinish(key) ==
    CASE key = "block:538" -> <<14838, 13505, 50861, 52212>>
      [] key = "block:539" -> <<61542, 10069, 49681, 23368>>
      [] key = "block:13366" -> <<53501, 42420, 50861, 52212>>
      [] key = "block_height" -> <<41334, 33077, 56431, 41681>>
      [] key = "transaction_count" -> <<43927, 35441, 52445, 14038>>
      [] key = "transaction_hashes_registry" -> <<55821, 50783, 51307, 9972>>

\* u64 as i32 : the low 32 bits, read as two's complement
AsI32(h) == (IF h[3] >= 32768 THEN h[3] - 65536 ELSE h[3]) * 65536 + h[4]

\* LedgerDB::bytes_to_key
bytes_to_key(key) == AsI32(DefaultHasherFinish(key))

\* LedgerDB::get : Some(value) as {value}, None as {}
LedgerGet(key) == IF bytes_to_key(key) \in DOMAIN db THEN db[bytes_to_key(key)] ELSE {}

\* the part of the state LedgerDB does not hold
StoreFrame ==
    UNCHANGED <<ledgerVars, now, pc, loc, minerVars, stored_log, connections,
                global_miner, evicted, device_ops, overflow_checks,
                heartbeat_response, lockVars, nodeVars, balancerVars,
                consensusVars, rewardVars, retargetVars, addressVars,
                restartVars>>

\* LedgerDB::put
LedgerPut(key, value) ==
    /\ db' = Put(db, bytes_to_key(key), {value})
    /\ StoreFrame

\* LedgerDB::delete
LedgerDelete(key) ==
    /\ bytes_to_key(key) \in DOMAIN db
    /\ db' = [k \in DOMAIN db \ {bytes_to_key(key)} |-> db[k]]
    /\ StoreFrame

\* The ledger database alone, under puts and deletes of the program's keys.
InitStore ==
    /\ LedgerInit
    /\ TasksInit
    /\ is_mining = [m \in Miners |-> FALSE]
    /\ ticks = [m \in Miners |-> 0]
    /\ device_ops = 0
    /\ overflow_checks = TRUE

NextStore ==
    \/ \E key \in LedgerKeys, value \in LedgerValues : LedgerPut(key, value)
    \/ \E key \in LedgerKeys : LedgerDelete(key)

SpecStore == InitStore /\ [][NextStore]_vars

\* C40: a put or a delete on one key leaves the value that get returns for
\* every other key of the program unchanged.
C40_KeysIndependent ==
    [][\A key \in LedgerKeys :
          ((\E value \in LedgerValues : LedgerPut(key, value)) \/ LedgerDelete(key))
              => \A other \in LedgerKeys \ {key} : LedgerGet(other)' = LedgerGet(other)]_vars

=============================================================================
